---- MODULE Spec2Model ----
(***************************************************************************)
(* Smart-eCommerce-Intelligence: the MCP request router (src/mcp), the     *)
(* Top-K analyzer (src/Analyse), the Shopify agent and the agent factory   *)
(* (src/agents) and the persistence layer (src/DB).                        *)
(*                                                                         *)
(* One set of variables, one specification per component:                  *)
(*   Spec             the router: host, servers, client and direct requests *)
(*   SpecTopK         SimpleTopKAnalyzer.get_top_k on bounded batches      *)
(*   SpecScrape       ShopifyAgent.scrape_products over _make_request      *)
(*   SpecNormalize    BaseA2AAgent.normalize_product_data                  *)
(*   SpecParse        the listing loop of ShopifyAgent.scrape_products     *)
(*   SpecJob          scrape_single_site and ScrapingServer._scrape_store  *)
(*   SpecStore        add_or_update_product, safe_get_or_create_product    *)
(*   SpecPass         a scrape pass saving its records one by one          *)
(*   SpecDetail       ShopifyAgent.extract_product_details                 *)
(*   SpecSurveillance ShopifyAgent.surveillance over the scheduler         *)
(*   SpecFullHistory  the router on a ScrapingServer with a full history   *)
(*   SpecMulti        EnhancedAgentFactory.scrape_multiple_sites           *)
(*   SpecMade         EnhancedAgentFactory.create_agent                    *)
(*   SpecAgain        add_or_update_product called twice with one dict     *)
(* Each specification holds the other components' variables at their      *)
(* initial value.                                                          *)
(***************************************************************************)
EXTENDS Integers, Sequences, FiniteSets, TLC

VARIABLES
    \* ---- router (src/mcp) ----
    servers,            \* MCPHost.servers: the registered servers' classes, in registration order
    db,                 \* the sqlite database behind DatabaseServer.db_path: a set of rows
    scraping_history,   \* ScrapingServer.scraping_history, one list per registered server
    clock,              \* datetime.now(): the number of requests made so far
    faulted,            \* some earlier request's _process_request raised
    last,               \* the latest request: what was asked, answered, and which handlers ran
    \* ---- Top-K analyzer (src/Analyse/simple_analyzer.py) ----
    products_df,        \* the DataFrame handed to get_top_k: a sequence of product rows
    topk,               \* the latest get_top_k call: its arguments and what it returned
    \* ---- Shopify scrape (src/agents/ShopifyAgent.py, BaseA2AAgent.py) ----
    scrape,             \* scrape_products: its locals (limit, page, all_products) and where it stands
    http,               \* _make_request: the attempts of the call in progress or last made
    \* ---- normalization (src/agents/BaseA2AAgent.py) ----
    norm,               \* normalize_product_data: a raw record, its normal form, and that form normalized again
    \* ---- listing parsing (src/agents/ShopifyAgent.py) ----
    parse,              \* the products of one page of /products.json and what the parsing loop made of them
    \* ---- scrape operations (src/agents/agent_factory.py, src/mcp/scraping_server.py) ----
    job,                \* the latest scrape operation: what the site did and what the operation returned
    \* ---- persistence (src/DB/db_utils.py, src/DB/models.py) ----
    products_table,     \* the products table: committed rows, in primary-key order
    dbop,               \* the latest persistence operation: its arguments, the table before it, its outcome
    pass,               \* a persisted scrape pass: which caller runs it, how far its save loop is, what it logged
    \* ---- product details (src/agents/ShopifyAgent.py) ----
    detail,             \* extract_product_details: what the product page holds and the details returned
    \* ---- surveillance (src/agents/ShopifyAgent.py) ----
    jobs,               \* schedule.jobs: the scheduled jobs, each with its agent and its interval in hours
    surveillance_job,   \* ShopifyAgent._surveillance_job of each agent: its job, or None
    toggled,            \* the latest surveillance call: its arguments and what was scheduled before it
    \* ---- multi-site scraping (src/agents/agent_factory.py) ----
    multi,              \* scrape_multiple_sites: its configs, the pool's futures, the sites map, the result
    \* ---- agent selection (src/agents/agent_factory.py) ----
    made,               \* the latest create_agent call: the site, the hint, and what it returned or raised
    \* ---- repeated upsert (src/DB/db_utils.py) ----
    again               \* add_or_update_product called twice with one product_data dict

routerVars == <<servers, db, scraping_history, clock, faulted, last>>

topkVars == <<products_df, topk>>

scrapeVars == <<scrape, http>>

normVars == <<norm>>

\* The components of the agents and of the persistence layer, beside the scrape loop.
parseVars == <<parse>>

jobVars == <<job>>

storeVars == <<products_table, dbop>>

passVars == <<pass>>

detailVars == <<detail>>

survVars == <<jobs, surveillance_job, toggled>>

multiVars == <<multi>>

madeVars == <<made>>

againVars == <<again>>

lastVars == <<multiVars, madeVars, againVars>>

middleVars == <<normVars, parseVars, jobVars, storeVars, passVars, detailVars, survVars>>

laterVars == <<middleVars, lastVars>>

vars == <<routerVars, topkVars, scrapeVars, laterVars>>

\* What each component's operations leave alone.
notRouterVars == <<topkVars, scrapeVars, laterVars>>
notTopkVars == <<routerVars, scrapeVars, laterVars>>
notScrapeVars == <<routerVars, topkVars, laterVars>>
firstVars == <<routerVars, topkVars, scrapeVars>>
notNormVars == <<firstVars, parseVars, jobVars, storeVars, passVars, detailVars, survVars, lastVars>>
notParseVars == <<firstVars, normVars, jobVars, storeVars, passVars, detailVars, survVars, lastVars>>
notJobVars == <<firstVars, normVars, parseVars, storeVars, passVars, detailVars, survVars, lastVars>>
notStoreVars == <<firstVars, normVars, parseVars, jobVars, passVars, detailVars, survVars, lastVars>>
notPassVars == <<firstVars, normVars, parseVars, jobVars, detailVars, survVars, lastVars>>
notDetailVars == <<firstVars, normVars, parseVars, jobVars, storeVars, passVars, survVars, lastVars>>
notSurvVars == <<firstVars, normVars, parseVars, jobVars, storeVars, passVars, detailVars, lastVars>>
notMultiVars == <<firstVars, middleVars, madeVars, againVars>>
notMadeVars == <<firstVars, middleVars, multiVars, againVars>>
notAgainVars == <<firstVars, middleVars, multiVars, madeVars>>

(***************************************************************************)
(* Bounds of the model.                                                    *)
(***************************************************************************)
MaxServers == 3
MaxRequests == 2
MaxBatch == 2
MaxK == 4
MaxLimit == 3
MaxPage == 4
MaxPerPage == 2
MaxTitle == 3
MaxVariants == 2
MaxProducts == 3
MaxRows == 2
MaxPass == 3
MaxConfigs == 3
MaxWorkers == 2

(***************************************************************************)
(* Router: requests, responses, permission tables.                         *)
(***************************************************************************)
None == "None"

\* Caller identities requests are made with.  "guest" is in no permission table.
Sources == {"admin", "data_analyzer", "guest"}

\* Action names requests are made with; "unknown_action" is granted by no server.
Actions == {"query_data", "get_schema", "modify_data",
            "scrape_store", "batch_scrape", "get_status", "unknown_action"}

\* request.parameters, by what the handlers do with it: a dict carrying a query that
\* reads, a query that writes, a query sqlite rejects; or no dict at all (None).
Params == {"SELECT", "INSERT", "BAD", "NoParams"}

\* What the ShopifyAgent behind a scrape does: products scraped, none found, the
\* site is not a Shopify store, or the agent raised.
ScrapeOutcomes == {"scraped", "empty", "not_shopify", "agent_error"}

\* The parameters and scrape outcomes that make a difference to an action's handler:
\* the scraping handlers read no query, and only scrape_store reports what the agent did.
ParamsOf(action) ==
    IF action \in {"query_data", "get_schema", "modify_data"} THEN Params
    ELSE IF action \in {"scrape_store", "batch_scrape"} THEN {"SELECT", "NoParams"}
    ELSE {"SELECT"}

OutcomesOf(action) == IF action = "scrape_store" THEN ScrapeOutcomes ELSE {"scraped"}

ServerClasses == {"DatabaseServer", "ScrapingServer"}

\* DatabaseServer.__init__ and ScrapingServer.__init__: the permissions dict.
PermissionTable(class) ==
    IF class = "DatabaseServer"
    THEN [s \in {"data_analyzer", "report_generator", "admin"} |->
            CASE s = "data_analyzer"    -> {"query_data", "get_schema"}
              [] s = "report_generator" -> {"query_data"}
              [] s = "admin"            -> {"query_data", "get_schema", "modify_data"}]
    ELSE [s \in {"dashboard", "admin", "llm_enricher", "scheduler"} |->
            {"scrape_store", "batch_scrape", "get_status"}]

\* dict.get(key, []) on a permission table.
PermGet(table, source) == IF source \in DOMAIN table THEN table[source] ELSE {}

\* MCPServer.can_handle
can_handle(class, request) ==
    request.action \in PermGet(PermissionTable(class), request.source)

MCPRequest(id, source, action, parameters) ==
    [request_id |-> id, source |-> source, action |-> action, parameters |-> parameters]

MCPResponse(id, status, data, error) ==
    [request_id |-> id, status |-> status, data |-> data, error |-> error]

\* A response's data: a handler's result by kind and one number of it, or None.
Data(kind, value) == [kind |-> kind, value |-> value]
NoData == Data("None", 0)

HistoryLimit == 100

\* ScrapingServer._log_session: append, then keep only the 100 latest entries.
log_session(history, source, success) ==
    LET appended == Append(history, [type |-> "session", source |-> source, success |-> success])
    IN  IF Len(appended) > HistoryLimit
        THEN SubSeq(appended, Len(appended) - HistoryLimit + 1, Len(appended))
        ELSE appended

\* ScrapingServer._log_batch_session: append only.
log_batch_session(history, source) ==
    Append(history, [type |-> "batch_scraping", source |-> source, success |-> TRUE])

\* What a handler's _process_request does: the exception it raises ("" for none), the
\* result it returns, and the database and scraping history it leaves.
Outcome(raised, data, newDb, newHistory) ==
    [raised |-> raised, data |-> data, db |-> newDb, history |-> newHistory]

AttributeErrorMsg == "'NoneType' object has no attribute 'get'"
SqlErrorMsg == "near \"BAD\": syntax error"
UnknownActionMsg == "Unknown action"

\* DatabaseServer._execute_query: runs any statement inside `with sqlite3.connect(...)`,
\* whose exit commits; a statement that writes therefore changes the database.
execute_query(query, curDb, history) ==
    CASE query = "BAD"    -> Outcome(SqlErrorMsg, NoData, curDb, history)
      [] query = "INSERT" -> Outcome("", Data("rows", 0), curDb + 1, history)
      [] OTHER            -> Outcome("", Data("rows", curDb), curDb, history)

\* DatabaseServer._get_schema: PRAGMA table_info, read-only.
get_schema(table, curDb, history) ==
    IF table = "BAD"
    THEN Outcome(SqlErrorMsg, NoData, curDb, history)
    ELSE Outcome("", Data("schema", 0), curDb, history)

\* DatabaseServer._modify_data: execute and commit.
modify_data(query, curDb, history) ==
    CASE query = "BAD"    -> Outcome(SqlErrorMsg, NoData, curDb, history)
      [] query = "INSERT" -> Outcome("", Data("rows_affected", 1), curDb + 1, history)
      [] OTHER            -> Outcome("", Data("rows_affected", 0), curDb, history)

\* DatabaseServer._process_request
DatabaseServer_process_request(request, curDb, history) ==
    IF request.action \in {"query_data", "get_schema", "modify_data"}
          /\ request.parameters = "NoParams"
    THEN Outcome(AttributeErrorMsg, NoData, curDb, history)
    ELSE CASE request.action = "query_data"  -> execute_query(request.parameters, curDb, history)
           [] request.action = "get_schema"  -> get_schema(request.parameters, curDb, history)
           [] request.action = "modify_data" -> modify_data(request.parameters, curDb, history)
           [] OTHER -> Outcome(UnknownActionMsg, NoData, curDb, history)

\* ScrapingServer._scrape_store: parameters are read before the try; everything the
\* agent does is inside it, and a session is logged once the scrape returned.
scrape_store(request, outcome, curDb, history) ==
    IF request.parameters = "NoParams"
    THEN Outcome(AttributeErrorMsg, NoData, curDb, history)
    ELSE CASE outcome = "scraped" ->
                Outcome("", Data("scrape", 1), curDb, log_session(history, request.source, TRUE))
           [] outcome = "empty" ->
                Outcome("", Data("scrape", 0), curDb, log_session(history, request.source, FALSE))
           [] OTHER -> Outcome("", Data("scrape", 0), curDb, history)

\* ScrapingServer._batch_scrape: each site's failure is caught per site; the batch is logged.
batch_scrape(request, outcome, curDb, history) ==
    IF request.parameters = "NoParams"
    THEN Outcome(AttributeErrorMsg, NoData, curDb, history)
    ELSE Outcome("", Data("batch", 1), curDb,
                 log_batch_session(history, request.source))

\* ScrapingServer._get_status
get_status(curDb, history) == Outcome("", Data("status", Len(history)), curDb, history)

\* ScrapingServer._process_request
ScrapingServer_process_request(request, outcome, curDb, history) ==
    CASE request.action = "scrape_store" -> scrape_store(request, outcome, curDb, history)
      [] request.action = "batch_scrape" -> batch_scrape(request, outcome, curDb, history)
      [] request.action = "get_status"   -> get_status(curDb, history)
      [] OTHER -> Outcome(UnknownActionMsg, NoData, curDb, history)

\* The abstract MCPServer._process_request, dispatched on the server's class.
process_request(class, request, outcome, curDb, history) ==
    IF class = "DatabaseServer"
    THEN DatabaseServer_process_request(request, curDb, history)
    ELSE ScrapingServer_process_request(request, outcome, curDb, history)

\* What one call of handle_request did: the response, the servers whose
\* _process_request ran (in order), what the handler raised ("" for nothing), the
\* request's lifecycle, and the state left.
Handled(response, handlers, raised, trace, newDb, newHistories) ==
    [response |-> response, handlers |-> handlers, raised |-> raised, trace |-> trace,
     db |-> newDb, histories |-> newHistories]

Lifecycle == <<"received", "authorized", "processing", "completed">>

\* Mutant: handle_request without its permission check.
MCPServer_handle_request_unchecked(i, request, outcome) ==
    LET o == process_request(servers[i], request, outcome, db, scraping_history[i])
        histories == [scraping_history EXCEPT ![i] = o.history]
    IN  IF o.raised = ""
        THEN Handled(MCPResponse(request.request_id, "success", o.data, None),
                     <<i>>, o.raised, Lifecycle, o.db, histories)
        ELSE Handled(MCPResponse(request.request_id, "error", NoData, o.raised),
                     <<i>>, o.raised, Lifecycle, o.db, histories)

\* Mutant: the except branch answers with a fixed text instead of str(e).
MCPServer_handle_request_generic_error(i, request, outcome) ==
    IF ~can_handle(servers[i], request)
    THEN Handled(MCPResponse(request.request_id, "error", NoData, "Permission denied"),
                 <<>>, "", <<"received", "denied">>, db, scraping_history)
    ELSE LET o == process_request(servers[i], request, outcome, db, scraping_history[i])
             histories == [scraping_history EXCEPT ![i] = o.history]
         IN  IF o.raised = ""
             THEN Handled(MCPResponse(request.request_id, "success", o.data, None),
                          <<i>>, o.raised, Lifecycle, o.db, histories)
             ELSE Handled(MCPResponse(request.request_id, "error", NoData, "Internal error"),
                          <<i>>, o.raised, Lifecycle, o.db, histories)

\* MCPServer.handle_request on the i-th registered server.
MCPServer_handle_request(i, request, outcome) ==
    IF ~can_handle(servers[i], request)
    THEN Handled(MCPResponse(request.request_id, "error", NoData, "Permission denied"),
                 <<>>, "", <<"received", "denied">>, db, scraping_history)
    ELSE LET o == process_request(servers[i], request, outcome, db, scraping_history[i])
             histories == [scraping_history EXCEPT ![i] = o.history]
         IN  IF o.raised = ""
             THEN Handled(MCPResponse(request.request_id, "success", o.data, None),
                          <<i>>, o.raised, Lifecycle, o.db, histories)
             ELSE Handled(MCPResponse(request.request_id, "error", NoData, o.raised),
                          <<i>>, o.raised, Lifecycle, o.db, histories)

\* Mutant: the host hands the request to the first registered server without
\* asking can_handle.
FirstServer_unasked(request) == IF servers = <<>> THEN 0 ELSE 1

\* Mutant: the host picks the last server that can handle the request.
FirstServer_last(request) ==
    LET able == {i \in 1..Len(servers) : can_handle(servers[i], request)}
    IN  IF able = {} THEN 0 ELSE CHOOSE i \in able : \A j \in able : i >= j

\* The first registered server that can handle the request, 0 when there is none:
\* the for loop of MCPHost.handle_request.
FirstServer(request) ==
    LET able == {i \in 1..Len(servers) : can_handle(servers[i], request)}
    IN  IF able = {} THEN 0 ELSE CHOOSE i \in able : \A j \in able : i <= j

NoServerAvailable == "No server available to handle request"

\* Mutant: a request no server can handle is handed to the first registered server.
MCPHost_handle_request_default_server(request, outcome) ==
    IF FirstServer(request) # 0
    THEN MCPServer_handle_request(FirstServer(request), request, outcome)
    ELSE IF Len(servers) > 0
         THEN MCPServer_handle_request(1, request, outcome)
         ELSE Handled(MCPResponse(request.request_id, "error", NoData, NoServerAvailable),
                      <<>>, "", <<"received">>, db, scraping_history)

\* MCPHost.handle_request
MCPHost_handle_request(request, outcome) ==
    IF FirstServer(request) # 0
    THEN MCPServer_handle_request(FirstServer(request), request, outcome)
    ELSE Handled(MCPResponse(request.request_id, "error", NoData, NoServerAvailable),
                 <<>>, "", <<"received">>, db, scraping_history)

\* The record of the latest request.
NoRequest == [via |-> "none"]

Record(via, target, request, h) ==
    [via |-> via, target |-> target, request |-> request, response |-> h.response,
     handlers |-> h.handlers, raised |-> h.raised, trace |-> h.trace,
     pre |-> [db |-> db, histories |-> scraping_history],
     post |-> [db |-> h.db, histories |-> h.histories],
     servers |-> servers,
     faultedBefore |-> faulted]

(***************************************************************************)
(* Router: the operations.                                                 *)
(***************************************************************************)
InitRouter ==
    /\ servers = <<>>
    /\ db = 0
    /\ scraping_history = <<>>
    /\ clock = 0
    /\ faulted = FALSE
    /\ last = NoRequest

\* MCPServer.__init__ of a DatabaseServer or ScrapingServer: host.register_server(self).
RegisterServer ==
    \E class \in ServerClasses :
        /\ Len(servers) < MaxServers
        /\ last = NoRequest
        /\ servers' = Append(servers, class)
        /\ scraping_history' = Append(scraping_history, <<>>)
        /\ UNCHANGED <<db, clock, faulted, last, notRouterVars>>

Apply(via, target, request, h) ==
    /\ db' = h.db
    /\ scraping_history' = h.histories
    /\ clock' = clock + 1
    /\ faulted' = (faulted \/ (h.handlers # <<>> /\ h.response.status = "error"))
    /\ last' = Record(via, target, request, h)
    /\ UNCHANGED <<servers, notRouterVars>>

\* MCPClient.make_request: build the request, hand it to the host, return its response.
ClientMakeRequest ==
    \E source \in Sources, action \in Actions :
      \E parameters \in ParamsOf(action), outcome \in OutcomesOf(action) :
        /\ clock < MaxRequests
        /\ last = NoRequest
        /\ LET request == MCPRequest(<<source, clock + 1>>, source, action, parameters)
           IN  Apply("client", 0, request, MCPHost_handle_request(request, outcome))

\* MCPServer.handle_request called on a server directly, not through the host.
ServerHandleRequest ==
    \E i \in 1..Len(servers), source \in Sources, action \in Actions :
      \E parameters \in ParamsOf(action), outcome \in OutcomesOf(action) :
        /\ clock < MaxRequests
        /\ last = NoRequest
        /\ LET request == MCPRequest(<<source, clock + 1>>, source, action, parameters)
           IN  Apply("direct", i, request, MCPServer_handle_request(i, request, outcome))

\* The caller is done with the response: neither host nor server keeps a request or
\* its response, and the caller's next request starts from nothing.
DiscardResponse ==
    /\ last # NoRequest
    /\ last' = NoRequest
    /\ UNCHANGED <<servers, db, scraping_history, clock, faulted, notRouterVars>>

NextRouter == RegisterServer \/ ClientMakeRequest \/ ServerHandleRequest \/ DiscardResponse

(***************************************************************************)
(* Router: the claims.                                                     *)
(***************************************************************************)
\* The allow-list the server of the latest request held for the request's source.
LastAllowed(i) == PermGet(PermissionTable(last.servers[i]), last.request.source)

LastUntouched == last.post = last.pre

\* C1: a request made to a server directly whose action is not in that server's
\* allow-list for the request's source (a source absent from the table included) is
\* answered status "error", error "Permission denied", data None; no
\* _process_request runs and the database and every scraping history are unchanged.
C1_PermissionDenied ==
    (last.via = "direct" /\ last.request.action \notin LastAllowed(last.target)) =>
        /\ last.response.status = "error"
        /\ last.response.error = "Permission denied"
        /\ last.response.data = NoData
        /\ last.handlers = <<>>
        /\ LastUntouched

\* The scenario: "guest" asks a ScrapingServer that holds earlier sessions to scrape.
C1_Witness ==
    /\ last.via = "direct"
    /\ last.servers[last.target] = "ScrapingServer"
    /\ last.request.source = "guest"
    /\ last.request.action = "scrape_store"
    /\ last.pre.histories[last.target] # <<>>
    /\ last.response.error = "Permission denied"

\* C2: when _process_request raises, handle_request answers status "error", data None
\* and the exception's message as error; and a request handled after an earlier
\* fault, whose own handler raises nothing, is answered status "success".
C2_FaultContained ==
    /\ (last.via # "none" /\ last.raised # "") =>
          /\ last.response.status = "error"
          /\ last.response.data = NoData
          /\ last.response.error = last.raised
    /\ (last.via # "none" /\ last.faultedBefore /\ last.handlers # <<>> /\ last.raised = "") =>
          last.response.status = "success"

C2_Witness ==
    /\ last.via = "client"
    /\ last.faultedBefore
    /\ last.handlers # <<>>
    /\ last.response.status = "success"

\* C3: the host hands a client's request to the first server in registration order
\* that can handle it and to no other; when none can, no handler runs and the answer
\* is status "error", error "No server available to handle request".
C3_FirstMatch ==
    last.via = "client" =>
        LET able == {i \in 1..Len(last.servers) : last.request.action \in LastAllowed(i)}
        IN  IF able = {}
            THEN /\ last.handlers = <<>>
                 /\ last.response.status = "error"
                 /\ last.response.error = NoServerAvailable
                 /\ LastUntouched
            ELSE \E i \in able : /\ \A j \in able : i <= j
                                 /\ last.handlers = <<i>>

\* The first server cannot handle the request and two later ones can.
C3_Witness ==
    /\ last.via = "client"
    /\ Len(last.servers) = 3
    /\ last.request.action \notin LastAllowed(1)
    /\ last.request.action \in LastAllowed(2)
    /\ last.request.action \in LastAllowed(3)
    /\ last.handlers = <<2>>

\* C4 as stated: every request made through MCPClient.make_request is consumed by
\* exactly one handler, answered with its own request_id, and goes through
\* received, authorized, processing, completed or through received, denied.
C4_Original ==
    (last.via = "client" /\ last.servers # <<>>) =>
        /\ Len(last.handlers) = 1
        /\ last.response.request_id = last.request.request_id
        /\ last.trace \in {Lifecycle, <<"received", "denied">>}

\* C4 as amended: a request made through MCPClient.make_request is answered with its
\* own request_id and consumed by at most one handler: by exactly one, going through
\* received, authorized, processing, completed, when some registered server permits
\* it, and by none when no server does (the host answers "No server available to
\* handle request" from received).  received, denied occurs only for a request made
\* to a server directly.
C4_SingleShot ==
    /\ last.via = "client" =>
          /\ last.response.request_id = last.request.request_id
          /\ IF \E i \in 1..Len(last.servers) : last.request.action \in LastAllowed(i)
             THEN Len(last.handlers) = 1 /\ last.trace = Lifecycle
             ELSE /\ last.handlers = <<>> /\ last.trace = <<"received">>
                  /\ last.response.error = NoServerAvailable
    /\ last.via = "direct" =>
          /\ last.response.request_id = last.request.request_id
          /\ IF last.request.action \in LastAllowed(last.target)
             THEN last.handlers = <<last.target>> /\ last.trace = Lifecycle
             ELSE last.handlers = <<>> /\ last.trace = <<"received", "denied">>

C4_Witness ==
    /\ last.via = "client"
    /\ Len(last.servers) > 1
    /\ Len(last.handlers) = 1
    /\ last.trace = Lifecycle
    /\ last.response.request_id = last.request.request_id

\* C24: a query_data request leaves the database as it was, whatever the
\* query; the database changes only through modify_data asked by "admin", and
\* never through a request of "data_analyzer".
C24_QueryDataReadOnly ==
    last.via # "none" =>
        /\ last.request.action = "query_data" => last.post.db = last.pre.db
        /\ last.post.db # last.pre.db =>
              (last.request.action = "modify_data" /\ last.request.source = "admin")
        /\ last.request.source = "data_analyzer" => last.post.db = last.pre.db

\* What holds: the database changes only when a DatabaseServer ran a writing
\* statement for a source it grants the action to, through modify_data or
\* through query_data.
C24_WritesNeedGrant ==
    (last.via # "none" /\ last.post.db # last.pre.db) =>
        /\ Len(last.handlers) = 1
        /\ last.servers[last.handlers[1]] = "DatabaseServer"
        /\ last.request.parameters = "INSERT"
        /\ last.request.action \in {"query_data", "modify_data"}
        /\ last.request.action \in LastAllowed(last.handlers[1])

\* C25: a request routed by the host is never answered "Permission denied":
\* when no registered server permits it the answer is "No server available to
\* handle request"; "Permission denied" answers only a request made to a
\* server directly.
C25_HostNeverDenies ==
    /\ last.via = "client" =>
          /\ last.response.error # "Permission denied"
          /\ (\A i \in 1..Len(last.servers) : last.request.action \notin LastAllowed(i)) =>
                last.response.error = NoServerAvailable
    /\ (last.via # "none" /\ last.response.error = "Permission denied") => last.via = "direct"

\* A client's request that none of two registered servers permits.
C25_Witness ==
    /\ last.via = "client"
    /\ Len(last.servers) >= 2
    /\ \A i \in 1..Len(last.servers) : last.request.action \notin LastAllowed(i)
    /\ last.response.status = "error"
    /\ last.response.error = NoServerAvailable

(***************************************************************************)
(* Router: a ScrapingServer whose history is full.  The requests are the   *)
(* router's; the server has logged HistoryLimit sessions before them.      *)
(***************************************************************************)
\* scraping_history after HistoryLimit scrape_store requests that scraped products.
FullHistory ==
    [k \in 1..HistoryLimit |-> [type |-> "session", source |-> "admin", success |-> TRUE]]

InitFullHistory ==
    /\ servers = <<"ScrapingServer">>
    /\ db = 0
    /\ scraping_history = <<FullHistory>>
    /\ clock = 0
    /\ faulted = FALSE
    /\ last = NoRequest

\* C26: a ScrapingServer's scraping_history never holds more than 100
\* entries, and the total_sessions get_status reports never exceeds 100.
C26_BoundedHistory ==
    /\ \A i \in 1..Len(scraping_history) : Len(scraping_history[i]) <= HistoryLimit
    /\ (last.via # "none" /\ last.request.action = "get_status"
            /\ last.response.status = "success") =>
          last.response.data.value <= HistoryLimit

\* What holds: a request that logged a session leaves at most 100 entries,
\* and a batch_scrape adds its entry to whatever the history holds.
C26_SessionsTruncate ==
    (last.via # "none" /\ Len(last.handlers) = 1) =>
        LET i == last.handlers[1]
            before == last.pre.histories[i]
            after == last.post.histories[i]
        IN  /\ (last.request.action = "scrape_store" /\ after # before) =>
                  Len(after) <= HistoryLimit
            /\ (last.request.action = "batch_scrape" /\ last.raised = "") =>
                  Len(after) = Len(before) + 1

(***************************************************************************)
(* Top-K analyzer: SimpleTopKAnalyzer.get_top_k as an operator on a        *)
(* DataFrame.  A row carries its DataFrame index, price, available (True,  *)
(* False, or NaN for a missing value) and product_type.                    *)
(***************************************************************************)
PriceValues == {-2, 1, 2}
AvailableValues == {"True", "False", "NaN"}
ProductTypes == {"shoes", "hats"}

Row(index, price, available, product_type) ==
    [index |-> index, price |-> price, available |-> available, product_type |-> product_type]

\* The DataFrames of at most MaxBatch rows, indexed 1..n in row order.
SmallFrames ==
    UNION {{[i \in 1..n |-> Row(i, f[i][1], f[i][2], f[i][3])] :
              f \in [1..n -> PriceValues \X AvailableValues \X ProductTypes]} : n \in 0..MaxBatch}

\* The batch of the specification's scenario: prices 30, 10, 20, 10, 5 with
\* availability T, F, T, T, T.
ScenarioFrame ==
    <<Row(1, 30, "True", "shoes"), Row(2, 10, "False", "shoes"), Row(3, 20, "True", "shoes"),
      Row(4, 10, "True", "shoes"), Row(5, 5, "True", "shoes")>>

\* min_price arguments: a negative one, the default 0.0, positive ones.
MinPrices == {-1, 0, 2, 15}

\* category arguments: None (the default), the "all" entry of the selector, a category.
NoCategory == "None"
Categories == {NoCategory, "Toutes", "shoes"}

\* df[mask]: the rows of a frame whose entry in a boolean mask is true, in frame order.
RECURSIVE SelectRows(_, _)
SelectRows(df, mask) ==
    IF df = <<>> THEN <<>>
    ELSE (IF Head(mask) THEN <<Head(df)>> ELSE <<>>) \o SelectRows(Tail(df), Tail(mask))

\* get_top_k, lines 21-22: if min_price > 0, keep the rows with price >= min_price.
FilterPrice(df, min_price) ==
    IF min_price > 0
    THEN SelectRows(df, [i \in 1..Len(df) |-> df[i].price >= min_price])
    ELSE df

\* get_top_k, lines 24-25: if category and category != 'Toutes', keep its rows.
FilterCategory(df, category) ==
    IF category # NoCategory /\ category # "Toutes"
    THEN SelectRows(df, [i \in 1..Len(df) |-> df[i].product_type = category])
    ELSE df

\* filtered_df['available'].fillna(True)
FillNa(df) ==
    [i \in 1..Len(df) |-> [df[i] EXCEPT !.available = IF @ = "NaN" THEN "True" ELSE @]]

\* The order of sort_values(['available', 'price'], ascending=[False, True]): a
\* comes strictly before b.
Before(a, b) ==
    \/ a.available = "True" /\ b.available = "False"
    \/ a.available = b.available /\ a.price < b.price

\* Mutant: a row goes in front of the rows it ties with.
InsertRow_unstable(sorted, r) ==
    LET n == Cardinality({i \in 1..Len(sorted) : Before(sorted[i], r)})
    IN  SubSeq(sorted, 1, n) \o <<r>> \o SubSeq(sorted, n + 1, Len(sorted))

\* One step of the stable sort: r goes behind every row that does not come after it.
InsertRow(sorted, r) ==
    LET n == Cardinality({i \in 1..Len(sorted) : ~Before(r, sorted[i])})
    IN  SubSeq(sorted, 1, n) \o <<r>> \o SubSeq(sorted, n + 1, Len(sorted))

\* DataFrame.sort_values on several columns: a stable (lexsort) sort.
RECURSIVE SortValues(_)
SortValues(df) ==
    IF df = <<>> THEN <<>>
    ELSE InsertRow(SortValues(SubSeq(df, 1, Len(df) - 1)), df[Len(df)])

\* DataFrame.head(k) for k >= 0.
DataFrameHead(df, k) == SubSeq(df, 1, IF k < Len(df) THEN k ELSE Len(df))

TopKResult(top_products, success, error) ==
    [top_products |-> top_products, success |-> success, error |-> error]

\* Whether the stats block can raise: only the division by len(top_k) = 0, and only
\* when the available column is of object dtype (it held a missing value and fillna
\* left the dtype alone), which depends on the pandas version.
StatsMayRaise(filtered, k) ==
    k = 0 /\ \E i \in 1..Len(filtered) : filtered[i].available = "NaN"

\* SimpleTopKAnalyzer.get_top_k; statsRaise says whether the stats block raised.
get_top_k(df, k, min_price, category, statsRaise) ==
    IF df = <<>>
    THEN TopKResult(<<>>, FALSE, "Aucun produit a analyser")
    ELSE LET filtered == FilterCategory(FilterPrice(df, min_price), category)
         IN  IF filtered = <<>>
             THEN TopKResult(<<>>, FALSE, "Aucun produit apres filtrage")
             ELSE IF statsRaise
                  THEN TopKResult(<<>>, FALSE, "Erreur d'analyse")
                  ELSE TopKResult(DataFrameHead(SortValues(FillNa(filtered)), k), TRUE, "")

NoCall == [called |-> FALSE]

InitTopK ==
    /\ products_df \in SmallFrames \cup {ScenarioFrame}
    /\ topk = NoCall

IdleTopK ==
    /\ products_df = <<>>
    /\ topk = NoCall

\* One call of analyzer.get_top_k(products_df, k, min_price, category).
GetTopK ==
    \E k \in 0..MaxK, min_price \in MinPrices, category \in Categories, statsRaise \in BOOLEAN :
        /\ topk = NoCall
        /\ statsRaise => StatsMayRaise(FilterCategory(FilterPrice(products_df, min_price), category), k)
        /\ topk' = [called |-> TRUE, k |-> k, min_price |-> min_price, category |-> category,
                    result |-> get_top_k(products_df, k, min_price, category, statsRaise)]
        /\ UNCHANGED <<products_df, notTopkVars>>

NextTopK == GetTopK

(***************************************************************************)
(* Top-K analyzer: the claims.                                             *)
(***************************************************************************)
\* The rows of the batch that pass the filter (min_price, category): price not below
\* min_price and, when a category is given, product_type equal to it.
PassFilter(r) ==
    /\ r.price >= topk.min_price
    /\ topk.category \in {NoCategory, "Toutes"} \/ r.product_type = topk.category

Passing == {i \in 1..Len(products_df) : PassFilter(products_df[i])}

MinOf(a, b) == IF a < b THEN a ELSE b

TopProducts == topk.result.top_products

\* C5: top_products has length exactly min(k, |filter(B)|).
C5_Length ==
    topk.called => Len(TopProducts) = MinOf(topk.k, Cardinality(Passing))

\* C6: the returned products are ordered by availability descending then price
\* ascending, records with equal (available, price) in their order in the batch; and
\* the scenario batch with k = 3, min_price = 0 yields the records priced 5, 10 (the
\* available one, row 4) and 20.
C6_Order ==
    topk.called =>
        /\ \A i, j \in 1..Len(TopProducts) :
              i < j =>
                 /\ TopProducts[i].available = "True" \/ TopProducts[j].available = "False"
                 /\ TopProducts[i].available = TopProducts[j].available =>
                       TopProducts[i].price <= TopProducts[j].price
                 /\ (/\ TopProducts[i].available = TopProducts[j].available
                     /\ TopProducts[i].price = TopProducts[j].price) =>
                       TopProducts[i].index < TopProducts[j].index
        /\ (/\ products_df = ScenarioFrame /\ topk.k = 3 /\ topk.min_price = 0
            /\ topk.category = NoCategory) =>
              /\ [i \in 1..3 |-> TopProducts[i].index] = <<5, 4, 3>>
              /\ [i \in 1..3 |-> TopProducts[i].price] = <<5, 10, 20>>

\* The scenario's call has been made.
C6_Witness ==
    /\ topk.called
    /\ products_df = ScenarioFrame
    /\ topk.k = 3 /\ topk.min_price = 0 /\ topk.category = NoCategory
    /\ Len(TopProducts) = 3

\* C7: the result holds no record whose price is below min_price.
C7_MinPrice ==
    topk.called => \A i \in 1..Len(TopProducts) : TopProducts[i].price >= topk.min_price

(***************************************************************************)
(* Shopify scrape: BaseA2AAgent._make_request, one session.get per step,   *)
(* under ShopifyAgent.scrape_products, one page per call of _make_request. *)
(*                                                                         *)
(* page only names the URL to fetch and never decides what the loop does,  *)
(* so page numbers from MaxPage on are merged into MaxPage: a run that     *)
(* keeps fetching stays a run of the model.  The request and success       *)
(* counters of the agent, which no decision reads, are left out.           *)
(***************************************************************************)
max_retries == 3

\* What one session.get(url, timeout=10) does: it raises (a timeout, a connection
\* error) or returns a response with a status code.  Redirects are followed by
\* requests, so no 3xx status is among the answers.
Answer(exception, status_code) == [exception |-> exception, status_code |-> status_code]

Answers ==
    {Answer("Timeout", 0), Answer("ConnectionError", 0),
     Answer("", 200), Answer("", 204), Answer("", 404), Answer("", 500)}

\* response.raise_for_status(): HTTPError for a 4xx or 5xx status.
raise_for_status(status_code) == status_code >= 400 /\ status_code < 600

\* The attempt raised a requests.RequestException.
RequestException(answer) == answer.exception # "" \/ raise_for_status(answer.status_code)

\* What response.json() gives for a page: listings (n > 0 of them), an empty products
\* array, an object without a products key, or a body that is no JSON.
Bodies == [kind : {"products"}, n : 1..MaxPerPage]
            \cup {[kind |-> k, n |-> 0] : k \in {"empty", "no_products_key", "not_json"}}

\* scrape_products' limit argument.
Limits == -1..MaxLimit

\* Mutant: one attempt more than max_retries.
LastAttempt_one_more(attempt) == attempt >= max_retries

\* _make_request, line 72: `attempt < max_retries - 1` fails on the last attempt.
LastAttempt(attempt) == ~(attempt < max_retries - 1)

\* The records a page of n listings adds, each named by its page and place on it.
PageRecords(page, n) == [i \in 1..n |-> <<page, i>>]

\* scrape_products, lines 292-382: every listing is appended, and the for loop is
\* left once limit records are held.
AppendListings(all_products, page, n, limit) ==
    LET room == limit - Len(all_products)
        take == IF n < room THEN n ELSE room
    IN  all_products \o SubSeq(PageRecords(page, n), 1, take)

\* Mutant: an empty page does not end the pagination.
EndsPagination_never(body) == FALSE

\* scrape_products, lines 284-288: products = data.get('products', []); if not products: break
EndsPagination(body) == body.kind \in {"empty", "no_products_key"}

\* all_products[:limit]
Slice(all_products, limit) ==
    IF limit >= 0
    THEN SubSeq(all_products, 1, IF limit < Len(all_products) THEN limit ELSE Len(all_products))
    ELSE SubSeq(all_products, 1, IF Len(all_products) + limit > 0 THEN Len(all_products) + limit ELSE 0)

\* page += 1, with the page numbers from MaxPage on merged.
NextPage(page) == IF page < MaxPage THEN page + 1 ELSE MaxPage

\* A call of _make_request: attempt is the for loop's variable; gets, failures and
\* delays count the session.get calls made, those that raised, and the waits of
\* retry_delay; returned is "pending" until the call returns "Response" or "None".
IdleHttp == [attempt |-> 0, gets |-> 0, failures |-> 0, delays |-> 0, returned |-> "pending"]

\* The call of _make_request a session.get belongs to: the one in progress, or a new
\* one (line 273) when the last one has returned.
CurrentCall == IF http.returned = "pending" THEN http ELSE IdleHttp

IdleScrape == [pc |-> "idle"]

InitScrape ==
    /\ scrape = IdleScrape
    /\ http = IdleHttp

\* The while condition of scrape_products, line 269, and what follows either way:
\* the next call of _make_request, or the return of all_products[:limit].
Loop(limit, page, all_products, pages, stop) ==
    IF stop = "" /\ Len(all_products) < limit
    THEN [pc |-> "request", limit |-> limit, page |-> page, all_products |-> all_products,
          pages |-> pages, stop |-> "", result |-> <<>>]
    ELSE [pc |-> "done", limit |-> limit, page |-> page, all_products |-> all_products,
          pages |-> pages, stop |-> IF stop = "" THEN "limit" ELSE stop,
          result |-> Slice(all_products, limit)]

\* What the pages answered so far held: pages is a ghost with the body of each page
\* below MaxPage that was answered with status 200.
Fetched(pages, page, body) ==
    IF page < MaxPage THEN Append(pages, body) ELSE pages

\* scrape_products(limit) is called: lines 263-269.
ScrapeProducts ==
    \E limit \in Limits :
        /\ scrape.pc = "idle"
        /\ scrape' = Loop(limit, 1, <<>>, <<>>, "")
        /\ http' = IdleHttp
        /\ UNCHANGED notScrapeVars

\* One session.get of _make_request that raises: wait retry_delay and try again, or,
\* on the last attempt, return None, on which scrape_products leaves its loop.
GetFails ==
    \E answer \in Answers :
        /\ scrape.pc = "request"
        /\ RequestException(answer)
        /\ IF LastAttempt(CurrentCall.attempt)
           THEN /\ http' = [CurrentCall EXCEPT !.gets = @ + 1, !.failures = @ + 1,
                                               !.returned = "None"]
                /\ scrape' = Loop(scrape.limit, scrape.page, scrape.all_products,
                                  scrape.pages, "fetch_failed")
           ELSE /\ http' = [CurrentCall EXCEPT !.attempt = @ + 1, !.gets = @ + 1,
                                               !.failures = @ + 1, !.delays = @ + 1]
                /\ UNCHANGED scrape
        /\ UNCHANGED notScrapeVars

\* One session.get of _make_request that succeeds: the response is returned, and
\* scrape_products handles the page (lines 275-392) up to its next while test.
GetResponds ==
    \E answer \in Answers, body \in Bodies :
        /\ scrape.pc = "request"
        /\ ~RequestException(answer)
        /\ http' = [CurrentCall EXCEPT !.gets = @ + 1, !.returned = "Response"]
        /\ scrape' =
             IF answer.status_code # 200
             THEN Loop(scrape.limit, scrape.page, scrape.all_products, scrape.pages, "status")
             ELSE IF body.kind = "not_json"
             THEN Loop(scrape.limit, NextPage(scrape.page), scrape.all_products,
                       Fetched(scrape.pages, scrape.page, body), "")
             ELSE IF EndsPagination(body)
             THEN Loop(scrape.limit, scrape.page, scrape.all_products,
                       Fetched(scrape.pages, scrape.page, body), "empty_page")
             ELSE Loop(scrape.limit, NextPage(scrape.page),
                       AppendListings(scrape.all_products, scrape.page, body.n, scrape.limit),
                       Fetched(scrape.pages, scrape.page, body), "")
        /\ UNCHANGED notScrapeVars

NextScrape == ScrapeProducts \/ GetFails \/ GetResponds

(***************************************************************************)
(* Shopify scrape: the claims.                                             *)
(***************************************************************************)
\* The records of the first n pages answered, in page order.
RECURSIVE RecordsOfPages(_, _)
RecordsOfPages(pages, n) ==
    IF n = 0 THEN <<>>
    ELSE RecordsOfPages(pages, n - 1) \o PageRecords(n, pages[n].n)

EmptyBody(body) == body.kind \in {"empty", "no_products_key"}

\* C8: once a page N answers with an empty products array or without a products key,
\* scrape_products has returned exactly the records of pages 1..N-1 in page order,
\* and N is the last page requested.
C8_PaginationEnds ==
    scrape.pc # "idle" =>
        \A n \in 1..Len(scrape.pages) :
            EmptyBody(scrape.pages[n]) =>
                /\ scrape.pc = "done"
                /\ n = Len(scrape.pages)
                /\ scrape.page = n
                /\ scrape.result = RecordsOfPages(scrape.pages, n - 1)

\* Two pages of listings, then an empty third page.
C8_Witness ==
    /\ scrape.pc = "done"
    /\ Len(scrape.pages) = 3
    /\ scrape.pages[1].kind = "products"
    /\ scrape.pages[2].kind = "products"
    /\ scrape.pages[3].kind = "empty"
    /\ Len(scrape.result) = scrape.pages[1].n + scrape.pages[2].n

\* C9: scrape_products(limit) terminates for every limit and every sequence of page
\* outcomes: a scrape that is about to request a page eventually returns.
C9_Terminates == (scrape.pc = "request") ~> (scrape.pc = "done")

Get(d, key, default) == IF key \in DOMAIN d THEN d[key] ELSE default

EmptyDict == [key \in {} |-> TRUE]

\* A dict holding key, or not holding it.
Entry(key, value) == [k \in {key} |-> value]

\* The characters of titles: a word character, whitespace, a special character.
TitleChars == {"a", " ", "&"}

Titles == UNION {[1..n -> TitleChars] : n \in 0..MaxTitle}

TitleLimit == 100

IsSpace(c) == c = " "

\* The characters re.sub(r'[^\w\s\-\(\)\[\]]+', '', ...) keeps.
IsKept(c) == c \in {"a", " ", "-", "(", ")", "[", "]"}

RECURSIVE LStrip(_)
LStrip(t) == IF t # <<>> /\ IsSpace(Head(t)) THEN LStrip(Tail(t)) ELSE t

RECURSIVE RStrip(_)
RStrip(t) == IF t # <<>> /\ IsSpace(t[Len(t)]) THEN RStrip(SubSeq(t, 1, Len(t) - 1)) ELSE t

\* title.strip()
Strip(t) == RStrip(LStrip(t))

\* re.sub(r'\s+', ' ', ...): each run of whitespace becomes one space.
RECURSIVE CollapseSpaces(_)
CollapseSpaces(t) ==
    IF t = <<>> THEN <<>>
    ELSE IF IsSpace(Head(t))
         THEN <<" ">> \o CollapseSpaces(LStrip(t))
         ELSE <<Head(t)>> \o CollapseSpaces(Tail(t))

\* re.sub(r'[^\w\s\-\(\)\[\]]+', '', ...)
RECURSIVE RemoveSpecial(_)
RemoveSpecial(t) ==
    IF t = <<>> THEN <<>>
    ELSE IF IsKept(Head(t))
         THEN <<Head(t)>> \o RemoveSpecial(Tail(t))
         ELSE RemoveSpecial(Tail(t))

\* cleaned[:100]
Truncate(t, n) == IF Len(t) <= n THEN t ELSE SubSeq(t, 1, n)

clean_title(title) ==
    IF title = <<>> THEN <<>>
    ELSE Truncate(RemoveSpecial(CollapseSpaces(Strip(title))), TitleLimit)

Float(x) == [type |-> "float", value |-> x]

\* A price text: has_number says whether the pattern [\d,]+\.?\d* matches in it.
Text(has_number, number) == [type |-> "str", has_number |-> has_number, number |-> number]

parse_price(price_text) ==
    IF price_text.type = "float" THEN Float(price_text.value)
    ELSE IF price_text.type = "str" /\ price_text.has_number THEN Float(price_text.number)
    ELSE Float(0)

categorize_price(price) ==
    IF price = 0 THEN "free"
    ELSE IF price < 20 THEN "low"
    ELSE IF price < 100 THEN "medium"
    ELSE IF price < 500 THEN "high"
    ELSE "premium"

\* Ratings are whole numbers of stars here.
categorize_rating(rating) ==
    IF rating >= 4 THEN "very_good"
    ELSE IF rating >= 3 THEN "good"
    ELSE IF rating >= 2 THEN "fair"
    ELSE IF rating > 0 THEN "poor"
    ELSE "no_rating"

MinInt(a, b) == IF a <= b THEN a ELSE b

\* review_count ** 0.3 is review_count itself for the counts 0 and 1 of this model.
calculate_popularity_score(product) ==
      product.rating * 10
    + (IF product.review_count > 0 THEN MinInt(20, 5 * product.review_count) ELSE 0)
    + (IF product.availability THEN 5 ELSE 0)
    + (IF product.description_length > 100 THEN 3 ELSE 0)
    + (IF product.has_image THEN 2 ELSE 0)

\* _extract_rating(''): no rating text is given to the records of this model.
extract_rating == [rating |-> 0, review_count |-> 0]

\* The dict built first, before the computed features are added.
Normalized(raw_data) ==
    [id                 |-> Get(raw_data, "id", ""),
     title              |-> clean_title(Get(raw_data, "title", <<>>)),
     price              |-> parse_price(Get(raw_data, "price", Float(0))),
     rating             |-> Get(raw_data, "rating", extract_rating.rating),
     review_count       |-> Get(raw_data, "review_count", extract_rating.review_count),
     availability       |-> Get(raw_data, "available", TRUE),
     description_length |-> Get(raw_data, "description", 0),
     vendor             |-> Get(raw_data, "vendor", "Unknown"),
     category           |-> Get(raw_data, "product_type", Get(raw_data, "category", "Other")),
     image_url          |-> Get(raw_data, "image_url", ""),
     product_url        |-> Get(raw_data, "url", ""),
     platform           |-> "shopify",
     source_site        |-> "site_url"]

\* scraped_at, the time of the call, is left out: no claim compares it.
normalize_product_data(raw_data) ==
    LET normalized == Normalized(raw_data)
        with_image == normalized @@ [has_image |-> normalized.image_url # ""]
    IN  with_image @@
        [has_description  |-> normalized.description_length > 0,
         title_length     |-> Len(normalized.title),
         price_category   |-> categorize_price(normalized.price.value),
         rating_category  |-> categorize_rating(normalized.rating),
         popularity_score |-> calculate_popularity_score(with_image)]

\* The raw records: each key present with one of its values, or left out.
Choices(key, values) == {EmptyDict} \cup {Entry(key, v) : v \in values}

RawRecords ==
    { [id |-> "p1"] @@ t @@ p @@ a @@ d @@ u @@ c @@ r @@ i :
        t \in {Entry("title", x) : x \in Titles},
        p \in {Entry("price", x) : x \in {Float(0), Float(15), Text(TRUE, 15), Text(FALSE, 0)}},
        a \in Choices("available", BOOLEAN),
        d \in Choices("description", {0, 120}),
        u \in Choices("url", {"site_url/products/p1"}),
        c \in {Entry("product_type", "shoes"), Entry("category", "bags"), EmptyDict},
        r \in {EmptyDict, [rating |-> 4, review_count |-> 1]},
        i \in Choices("image_url", {"img"}) }

IdleNormalize == norm = [pc |-> "idle"]

InitNormalize == norm \in {[pc |-> "raw", raw |-> r] : r \in RawRecords}

\* normalize_product_data(raw), as scrape_and_normalize calls it.
Normalize ==
    /\ norm.pc = "raw"
    /\ norm' = [pc |-> "once", raw |-> norm.raw, once |-> normalize_product_data(norm.raw)]
    /\ UNCHANGED notNormVars

\* normalize_product_data applied to its own output.
NormalizeAgain ==
    /\ norm.pc = "once"
    /\ norm' = [pc |-> "twice", raw |-> norm.raw, once |-> norm.once,
                twice |-> normalize_product_data(norm.once)]
    /\ UNCHANGED notNormVars

NextNormalize == Normalize \/ NormalizeAgain

(***************************************************************************)
(* Normalization: the claims.                                              *)
(***************************************************************************)
NormalizedFields ==
    {"id", "title", "price", "rating", "review_count", "availability",
     "description_length", "vendor", "category", "image_url", "product_url",
     "platform", "source_site", "has_image", "has_description", "title_length",
     "price_category", "rating_category", "popularity_score"}

\* C11: normalizing a normalized record changes none of its fields
\* (scraped_at aside): normalize(normalize(r)) = normalize(r).
C11_Idempotent ==
    norm.pc = "twice" => \A f \in NormalizedFields : norm.twice[f] = norm.once[f]

\* The fields a second pass does keep: those read under the key they are written to.
C11_StableFields ==
    norm.pc = "twice" =>
        \A f \in {"id", "price", "rating", "review_count", "vendor", "category",
                  "image_url", "platform", "source_site", "has_image",
                  "price_category", "rating_category"} : norm.twice[f] = norm.once[f]

(***************************************************************************)
(* Listing parsing: the body of `for product in products` in               *)
(* ShopifyAgent.scrape_products.  A listing and a variant are dicts of the *)
(* store's JSON.  A JSON value is a number (or a text float() and int()    *)
(* read as one), null, or a text that is no number.                        *)
(***************************************************************************)
JNumber(n) == [json |-> "number", value |-> n]
JNull == [json |-> "null"]
JText == [json |-> "text"]

\* float(v), int(v): the number, or ValueError (a text) or TypeError (null).
ToNumber(v) ==
    IF v.json = "number" THEN [raised |-> None, value |-> v.value]
    ELSE IF v.json = "text" THEN [raised |-> "ValueError"]
    ELSE [raised |-> "TypeError"]

Variants ==
    { p @@ i @@ a :
        p \in Choices("price", {JNumber(5), JNumber(10), JNull, JText}),
        i \in {Entry("inventory_quantity", x) : x \in {JNumber(2), JNull}},
        a \in {Entry("available", x) : x \in BOOLEAN} }

VariantLists == UNION {[1..n -> Variants] : n \in 0..MaxVariants}

\* float('inf')
Infinity == [inf |-> TRUE]

Finite(x) == [inf |-> FALSE, value |-> x]

\* min(min_price, price)
MinPrice(min_price, price) ==
    IF min_price.inf THEN Finite(price) ELSE Finite(MinInt(min_price.value, price))

MaxInt(a, b) == IF a >= b THEN a ELSE b

\* The locals the variant loop starts from.
VariantLocals ==
    [min_price |-> Infinity, max_price |-> 0, total_inventory |-> 0, is_available |-> FALSE]

\* One pass of `for variant in variants`: the try block up to the statement that raises.
ProcessVariant(acc, variant) ==
    LET price == ToNumber(Get(variant, "price", JNumber(0)))
        inventory == ToNumber(Get(variant, "inventory_quantity", JNumber(0)))
    IN  IF price.raised # None THEN acc
        ELSE LET priced == [acc EXCEPT !.min_price = MinPrice(acc.min_price, price.value),
                                       !.max_price = MaxInt(acc.max_price, price.value)]
             IN  IF inventory.raised # None THEN priced
                 ELSE [priced EXCEPT
                         !.total_inventory = priced.total_inventory + inventory.value,
                         !.is_available = priced.is_available \/ Get(variant, "available", FALSE)]

RECURSIVE ProcessVariants(_, _)
ProcessVariants(acc, variants) ==
    IF variants = <<>> THEN acc
    ELSE ProcessVariants(ProcessVariant(acc, Head(variants)), Tail(variants))

\* An image entry is a dict; it has 'src' or lacks it.
ImageLists == {<<>>, <<[src |-> "img"]>>, <<[alt |-> "front"]>>}

\* A listing of /products.json with these variants, these images and this title entry.
Listing(variants, images, title) == [id |-> "p1", variants |-> variants, images |-> images] @@ title

\* A listing with everything the parsing reads.
GoodListing ==
    [id |-> "p2", title |-> "Bag", images |-> <<[src |-> "img"]>>,
     variants |-> <<[price |-> JNumber(5), inventory_quantity |-> JNumber(2), available |-> TRUE]>>]

\* The pages: a listing alone, before a good one, or after a good one.
Pages(l) == {<<l>>, <<l, GoodListing>>, <<GoodListing, l>>}

\* The parsing of one listing: product_data, or the exception it raises.
ParseListing(product) ==
    LET images == Get(product, "images", <<>>)
        has_image == images # <<>>
        variants == Get(product, "variants", <<>>)
        agg == ProcessVariants(VariantLocals, variants)
    IN  IF has_image /\ "src" \notin DOMAIN images[1]
        THEN [raised |-> "KeyError"]
        ELSE [raised |-> None,
              product_data |->
                [id              |-> Get(product, "id", ""),
                 title           |-> Get(product, "title", ""),
                 price           |-> IF agg.min_price.inf THEN 0 ELSE agg.min_price.value,
                 max_price       |-> agg.max_price,
                 available       |-> agg.is_available,
                 total_inventory |-> agg.total_inventory,
                 has_image       |-> has_image,
                 image_url       |-> IF has_image THEN images[1].src ELSE "",
                 variant_count   |-> Len(variants)]]

\* for product in products: ... all_products.append(product_data).  An exception
\* other than JSONDecodeError and RequestException has no handler in
\* scrape_products and leaves it.
RECURSIVE ParseProducts(_, _)
ParseProducts(products, all_products) ==
    IF products = <<>> THEN [raised |-> None, all_products |-> all_products]
    ELSE LET parsed == ParseListing(Head(products))
         IN  IF parsed.raised # None
             THEN [raised |-> parsed.raised, all_products |-> all_products]
             ELSE ParseProducts(Tail(products), Append(all_products, parsed.product_data))

IdleParse == parse = [pc |-> "idle"]

InitParse ==
    \E v \in VariantLists, i \in ImageLists, t \in Choices("title", {"Shirt"}) :
        \E page \in Pages(Listing(v, i, t)) :
            parse = [pc |-> "page", products |-> page]

\* scrape_products over a store of one page, with a limit above the page's size:
\* what it returns, or the exception that leaves it.
ParsePage ==
    /\ parse.pc = "page"
    /\ LET out == ParseProducts(parse.products, <<>>)
       IN  parse' = [pc |-> "done", products |-> parse.products, raised |-> out.raised,
                     result |-> IF out.raised = None THEN out.all_products ELSE <<>>]
    /\ UNCHANGED notParseVars

NextParse == ParsePage

(***************************************************************************)
(* Listing parsing: the claims.                                            *)
(***************************************************************************)
\* The listing a record of the result was built from.
ListingOf(record) ==
    CHOOSE n \in 1..Len(parse.products) : parse.products[n].id = record.id

UsablePrices(variants) ==
    {ToNumber(Get(variants[n], "price", JNumber(0))).value :
        n \in {m \in 1..Len(variants) :
                 ToNumber(Get(variants[m], "price", JNumber(0))).raised = None}}

RECURSIVE InventorySum(_)
InventorySum(variants) ==
    IF variants = <<>> THEN 0
    ELSE LET q == ToNumber(Get(Head(variants), "inventory_quantity", JNumber(0)))
         IN  (IF q.raised = None THEN q.value ELSE 0) + InventorySum(Tail(variants))

AnyAvailable(variants) ==
    \E n \in 1..Len(variants) : Get(variants[n], "available", FALSE)

Aggregates(record, variants) ==
    /\ UsablePrices(variants) # {} =>
          /\ \A p \in UsablePrices(variants) : record.price <= p /\ p <= record.max_price
          /\ {record.price, record.max_price} \subseteq UsablePrices(variants)
    /\ record.total_inventory = InventorySum(variants)
    /\ record.available = AnyAvailable(variants)

\* C12: a record's price is the least and its max_price the greatest of the
\* variants' prices, total_inventory the sum of their quantities (a price or
\* quantity that is null or no number counts for nothing), and available is
\* true exactly when some variant is available.
C12_Aggregation ==
    parse.pc = "done" =>
        \A n \in 1..Len(parse.result) :
            Aggregates(parse.result[n], parse.products[ListingOf(parse.result[n])].variants)

WellFormedVariant(variant) ==
    /\ ToNumber(Get(variant, "price", JNumber(0))).raised = None
    /\ ToNumber(Get(variant, "inventory_quantity", JNumber(0))).raised = None

\* The aggregation over variants whose price and quantity all read as numbers.
C12_AggregationOfNumbers ==
    parse.pc = "done" =>
        \A n \in 1..Len(parse.result) :
            LET variants == parse.products[ListingOf(parse.result[n])].variants
            IN  (\A m \in 1..Len(variants) : WellFormedVariant(variants[m]))
                    => Aggregates(parse.result[n], variants)

Malformed(product) ==
    \/ "title" \notin DOMAIN product
    \/ UsablePrices(Get(product, "variants", <<>>)) = {}
    \/ \E n \in 1..Len(Get(product, "images", <<>>)) : "src" \notin DOMAIN product.images[n]

RECURSIVE IdsOfWellFormed(_)
IdsOfWellFormed(products) ==
    IF products = <<>> THEN <<>>
    ELSE (IF Malformed(Head(products)) THEN <<>> ELSE <<Head(products).id>>)
         \o IdsOfWellFormed(Tail(products))

\* C13: no exception leaves scrape_products because of a malformed listing
\* (no title, no usable price, an image without src), and the result holds
\* the other listings, in order, and not the malformed one.
C13_MalformedSkipped ==
    parse.pc = "done" =>
        /\ parse.raised = None
        /\ [n \in 1..Len(parse.result) |-> parse.result[n].id] = IdsOfWellFormed(parse.products)

\* Over pages without a malformed listing every listing is returned, in order.
C13_WellFormedKept ==
    (parse.pc = "done" /\ \A n \in 1..Len(parse.products) : ~Malformed(parse.products[n])) =>
        /\ parse.raised = None
        /\ [n \in 1..Len(parse.result) |-> parse.result[n].id]
              = [n \in 1..Len(parse.products) |-> parse.products[n].id]

\* C14: every returned record has max_price >= price and variant_count >= 1.
C14_RecordInvariant ==
    parse.pc = "done" =>
        \A n \in 1..Len(parse.result) :
            /\ parse.result[n].max_price >= parse.result[n].price
            /\ parse.result[n].variant_count >= 1

\* The half of the invariant that holds for every listing.
C14_MaxNotBelowPrice ==
    parse.pc = "done" =>
        \A n \in 1..Len(parse.result) : parse.result[n].max_price >= parse.result[n].price

(***************************************************************************)
(* Scrape operations: EnhancedAgentFactory.scrape_single_site and          *)
(* ScrapingServer._scrape_store, each as a function of what the site does: *)
(* which platform it answers to, and what scrape_products returns or       *)
(* raises.  Products are counted, not kept.                                *)
(***************************************************************************)
AVAILABLE_AGENTS == <<"shopify", "woocommerce">>

PlatformHints == {None, "shopify", "woocommerce", "magento"}

\* What agent.scrape_products does: a list of count products, or an exception
\* (a listing of unexpected shape raises KeyError out of ShopifyAgent.scrape_products).
ScrapeReturns ==
    {[raised |-> None, count |-> n] : n \in 0..MaxProducts} \cup {[raised |-> "KeyError"]}

\* A site: whether it passes each agent's detect_platform.
Sites == [shopify : BOOLEAN, woocommerce : BOOLEAN]

\* _create_specific_agent: agent_class(site_url, category, **agent_kwargs).  The
\* Shopify kwargs hold with_variants, max_retries, delay_between_requests and
\* timeout, which ShopifyAgent.__init__(site_url, category, api_key) does not
\* take; WooCommerceAgent.__init__ takes any **kwargs.
create_specific_agent(platform) ==
    IF platform = "shopify"
    THEN [raised |-> "TypeError"]
    ELSE [raised |-> None, agent |-> platform]

\* The auto-detection loop of create_agent from the n-th agent class on: an
\* exception of creation or detection is caught, and the next class is tried.
RECURSIVE AutoDetect(_, _)
AutoDetect(site, n) ==
    IF n > Len(AVAILABLE_AGENTS) THEN [raised |-> None, agent |-> None]
    ELSE LET created == create_specific_agent(AVAILABLE_AGENTS[n])
         IN  IF created.raised = None /\ site[created.agent]
             THEN created
             ELSE AutoDetect(site, n + 1)

\* platform_hint.lower(), on the hints of the model.
Lower(platform_hint) == IF platform_hint = "Shopify" THEN "shopify" ELSE platform_hint

\* EnhancedAgentFactory.create_agent: the hinted class first, outside any try.
create_agent(site, platform_hint) ==
    IF platform_hint \notin {None, ""}
       /\ \E n \in 1..Len(AVAILABLE_AGENTS) : AVAILABLE_AGENTS[n] = Lower(platform_hint)
    THEN LET created == create_specific_agent(Lower(platform_hint))
         IN  IF created.raised # None THEN created
             ELSE IF site[created.agent] THEN created
             ELSE AutoDetect(site, 1)
    ELSE AutoDetect(site, 1)

\* len(products) > 0
HasProducts_always(count) == TRUE

HasProducts(count) == count > 0

\* What an operation did: the exception that left it or the dict it returned,
\* and how many products scrape_products gave it.
Returned(result, scraped) == [raised |-> None, result |-> result, scraped |-> scraped]

\* scrape_single_site: result starts as a failure and is filled as the steps
\* succeed; `except Exception` records str(e) in it.
scrape_single_site(site, platform_hint, fetched, export_format) ==
    LET result == [success |-> FALSE, product_count |-> 0, platform |-> None,
                   error |-> None, export_file |-> None]
        created == create_agent(site, platform_hint)
    IN  IF created.raised # None
        THEN Returned([result EXCEPT !.error = created.raised], 0)
        ELSE IF created.agent = None
        THEN Returned([result EXCEPT !.error = "Could not create compatible agent"], 0)
        ELSE IF fetched.raised # None
        THEN Returned([result EXCEPT !.platform = created.agent, !.error = fetched.raised], 0)
        ELSE Returned([result EXCEPT
                         !.platform = created.agent,
                         !.product_count = fetched.count,
                         !.success = HasProducts(fetched.count),
                         !.export_file = IF export_format # None /\ fetched.count > 0
                                         THEN "file" ELSE None],
                      fetched.count)

\* The url of the request's parameters: given, or missing (parameters.get gives None).
Urls == {"https://shop", None}

\* ScrapingServer._scrape_store on a request whose parameters are a dict:
\* ShopifyAgent(site_url=url, ...) directly; site_url.rstrip raises on None.
\* Everything from there on is inside try ... except Exception.
scrape_store_result(url, site, fetched) ==
    IF url = None
    THEN Returned([success |-> FALSE, error |-> "AttributeError", products_scraped |-> 0], 0)
    ELSE IF ~site.shopify
    THEN Returned([success |-> FALSE, error |-> "Site is not a Shopify store",
                   products_scraped |-> 0, platform |-> "not_shopify"], 0)
    ELSE IF fetched.raised # None
    THEN Returned([success |-> FALSE, error |-> fetched.raised, products_scraped |-> 0], 0)
    ELSE Returned([success |-> HasProducts(fetched.count), products_scraped |-> fetched.count,
                   platform |-> "shopify"],
                  fetched.count)

IdleJob == job = [call |-> "none"]

ScrapeSingleSite ==
    /\ \E site \in Sites, platform_hint \in PlatformHints, fetched \in ScrapeReturns,
          export_format \in {None, "csv"} :
          job' = [call |-> "scrape_single_site",
                  site |-> site, platform_hint |-> platform_hint, fetched |-> fetched,
                  out |-> scrape_single_site(site, platform_hint, fetched, export_format)]
    /\ UNCHANGED notJobVars

ScrapeStore ==
    /\ \E url \in Urls, site \in Sites, fetched \in ScrapeReturns :
          job' = [call |-> "_scrape_store",
                  site |-> site, url |-> url, fetched |-> fetched,
                  out |-> scrape_store_result(url, site, fetched)]
    /\ UNCHANGED notJobVars

NextJob == ScrapeSingleSite \/ ScrapeStore

(***************************************************************************)
(* Scrape operations: the claims.                                          *)
(***************************************************************************)
\* C15: scrape_single_site and _scrape_store never raise; they return a dict
\* with success and the product count or an error message, and success is
\* true exactly when scrape_products returned at least one product.
C15_ResultObject ==
    job.call # "none" =>
        /\ job.out.raised = None
        /\ "success" \in DOMAIN job.out.result
        /\ \/ "error" \in DOMAIN job.out.result /\ job.out.result.error # None
           \/ {"product_count", "products_scraped"} \cap DOMAIN job.out.result # {}
        /\ job.out.result.success <=> job.out.scraped > 0
        /\ job.out.scraped > 0 =>
              job.out.scraped = Get(job.out.result, "product_count",
                                    Get(job.out.result, "products_scraped", 0))

\* An agent was created and its scrape_products raised: the operation returned
\* a failure with the error; and a scrape that found nothing returned a failure too.
C15_Witness ==
    /\ job.call = "scrape_single_site"
    /\ job.fetched.raised = "KeyError"
    /\ job.out.result.platform = "woocommerce"
    /\ job.out.result.error = "KeyError"
    /\ ~job.out.result.success

(***************************************************************************)
(* Persistence: the products table with its unique constraints             *)
(* (uq_shopify_id, uq_store_title) and add_or_update_product on it.  A row *)
(* keeps its primary key, store, shopify_id (None for NULL), title and     *)
(* price; price stands for every field an update overwrites.  A record is  *)
(* a scraped product_data: id and title may be empty strings.              *)
(***************************************************************************)
StoreIds == {1, 2}

PlatformIds == {"", "x1"}

ProductTitles == {"", "A", "B"}

Prices == {1, 2}

Records == [id : PlatformIds, title : ProductTitles, price : Prices]

\* db.query(Product).filter(...).first(): the primary key of the matching row, 0 for None.
FindByShopifyId(rows, store_id, shopify_id) ==
    IF \E n \in 1..Len(rows) : rows[n].store_id = store_id /\ rows[n].shopify_id = shopify_id
    THEN CHOOSE n \in 1..Len(rows) : rows[n].store_id = store_id /\ rows[n].shopify_id = shopify_id
    ELSE 0

FindByTitle(rows, store_id, title) ==
    IF \E n \in 1..Len(rows) : rows[n].store_id = store_id /\ rows[n].title = title
    THEN CHOOSE n \in 1..Len(rows) : rows[n].store_id = store_id /\ rows[n].title = title
    ELSE 0

\* The lookup of the conflict branch: by shopify_id alone, in any store.
FindByShopifyIdAnyStore(rows, shopify_id) ==
    IF \E n \in 1..Len(rows) : rows[n].shopify_id = shopify_id
    THEN CHOOSE n \in 1..Len(rows) : rows[n].shopify_id = shopify_id
    ELSE 0

\* shopify_id = str(product_data.get('id', '')) if product_data.get('id') else None
ShopifyIdOf(product_data) == IF product_data.id # "" THEN product_data.id ELSE None

\* The lookup of add_or_update_product: by (store, shopify_id), else by (store, title).
FindExisting(rows, store_id, product_data) ==
    LET by_id == IF ShopifyIdOf(product_data) # None
                 THEN FindByShopifyId(rows, store_id, ShopifyIdOf(product_data))
                 ELSE 0
    IN  IF by_id # 0 THEN by_id
        ELSE IF product_data.title # "" THEN FindByTitle(rows, store_id, product_data.title)
        ELSE 0

\* The session's pending state before flush: the table with the product
\* found or created carrying the record's fields.
Pending(rows, store_id, product_data) ==
    LET found == FindExisting(rows, store_id, product_data)
        shopify_id == ShopifyIdOf(product_data)
    IN  IF found = 0
        THEN [pk |-> Len(rows) + 1, is_new |-> TRUE,
              rows |-> Append(rows, [pk |-> Len(rows) + 1, store_id |-> store_id,
                                     shopify_id |-> shopify_id,
                                     title |-> product_data.title,
                                     price |-> product_data.price])]
        ELSE [pk |-> found, is_new |-> FALSE,
              rows |-> [rows EXCEPT ![found] =
                          [@ EXCEPT !.title = product_data.title,
                                    !.price = product_data.price,
                                    !.shopify_id = IF shopify_id # None /\ @ = None
                                                   THEN shopify_id ELSE @]]]

\* The unique constraints the row pk of rows violates.
Violations(rows, pk) ==
    {c \in {"products.shopify_id", "products.store_id, products.title"} :
        \E n \in 1..Len(rows) :
            /\ n # pk
            /\ \/ c = "products.shopify_id"
                  /\ rows[pk].shopify_id # None
                  /\ rows[n].shopify_id = rows[pk].shopify_id
               \/ c = "products.store_id, products.title"
                  /\ rows[n].store_id = rows[pk].store_id
                  /\ rows[n].title = rows[pk].title}

\* What a persistence call did: the exception it raised (None for none), the
\* primary key of the product it returned, and the table it left.
Upserted(raised, returned, rows) == [raised |-> raised, returned |-> returned, rows |-> rows]

\* The except IntegrityError branch of add_or_update_product for a
\* shopify_id conflict: after rollback, the row holding the shopify_id, in
\* whichever store, takes the record's fields and is committed.
UpdateConflicting(rows, product_data) ==
    LET existing == FindByShopifyIdAnyStore(rows, ShopifyIdOf(product_data))
        updated == [rows EXCEPT ![existing] =
                      [@ EXCEPT !.title = product_data.title, !.price = product_data.price]]
    IN  IF existing = 0
        THEN Upserted("Exception", 0, rows)
        ELSE IF Violations(updated, existing) # {}
        THEN Upserted("IntegrityError", 0, rows)
        ELSE Upserted(None, existing, updated)

\* add_or_update_product.  reported is the constraint the database names in
\* the IntegrityError of flush ("none" when flush succeeds); when two
\* constraints fail at once the database names either.
add_or_update_product(rows, store_id, product_data, reported) ==
    LET pending == Pending(rows, store_id, product_data)
    IN  IF reported = "none" THEN Upserted(None, pending.pk, pending.rows)
        ELSE IF reported = "products.shopify_id" THEN UpdateConflicting(rows, product_data)
        ELSE Upserted("IntegrityError", 0, rows)

\* The constraints flush can report for this call.
Reportable(rows, store_id, product_data) ==
    LET pending == Pending(rows, store_id, product_data)
        violated == Violations(pending.rows, pending.pk)
    IN  IF violated = {} THEN {"none"} ELSE violated

NoDbOp == [op |-> "none"]

InitStore == products_table = <<>> /\ dbop = NoDbOp

IdlePass == pass = [pc |-> "idle"]

\* One call of add_or_update_product(db, store_id, product_data).
AddOrUpdateProduct ==
    \E store_id \in StoreIds, product_data \in Records :
        /\ Pending(products_table, store_id, product_data).is_new => Len(products_table) < MaxRows
        /\ \E reported \in Reportable(products_table, store_id, product_data) :
              LET out == add_or_update_product(products_table, store_id, product_data, reported)
              IN  /\ products_table' = out.rows
                  /\ dbop' = [op |-> "add_or_update_product",
                              store_id |-> store_id, product_data |-> product_data,
                              before |-> products_table, raised |-> out.raised,
                              returned |-> out.returned, attempts |-> 1,
                              repeats |-> /\ dbop.op = "add_or_update_product"
                                          /\ dbop.store_id = store_id
                                          /\ dbop.product_data = product_data
                                          /\ dbop.raised = None]
        /\ UNCHANGED notStoreVars

upsert_max_retries == 3

\* The outcomes of safe_get_or_create_product from its retry_count-th retry on:
\* add_or_update_product is called again after an IntegrityError until
\* upsert_max_retries of them have been seen; any exception ends in None
\* (returned 0).  attempts counts the calls made.
RECURSIVE SafeAttempts(_, _, _, _)
SafeAttempts(rows, store_id, product_data, retry_count) ==
    UNION { LET out == add_or_update_product(rows, store_id, product_data, reported)
            IN  IF out.raised = None
                THEN {[returned |-> out.returned, rows |-> out.rows, attempts |-> retry_count + 1]}
                ELSE IF out.raised = "IntegrityError" /\ retry_count + 1 < upsert_max_retries
                THEN SafeAttempts(out.rows, store_id, product_data, retry_count + 1)
                ELSE {[returned |-> 0, rows |-> out.rows, attempts |-> retry_count + 1]}
          : reported \in Reportable(rows, store_id, product_data) }

\* One call of safe_get_or_create_product(db, store_id, product_data).
SafeGetOrCreateProduct ==
    \E store_id \in StoreIds, product_data \in Records :
        /\ Pending(products_table, store_id, product_data).is_new => Len(products_table) < MaxRows
        /\ \E out \in SafeAttempts(products_table, store_id, product_data, 0) :
              /\ products_table' = out.rows
              /\ dbop' = [op |-> "safe_get_or_create_product",
                          store_id |-> store_id, product_data |-> product_data,
                          before |-> products_table, raised |-> None,
                          returned |-> out.returned, attempts |-> out.attempts]
        /\ UNCHANGED notStoreVars

NextStore == AddOrUpdateProduct \/ SafeGetOrCreateProduct

(***************************************************************************)
(* Persistence: the claims.                                                *)
(***************************************************************************)
CountOfStore(rows, store_id) ==
    Cardinality({n \in 1..Len(rows) : rows[n].store_id = store_id})

\* The primary keys of the rows an operation changed or added.
Touched(before, after) ==
    {n \in 1..Len(after) : n > Len(before) \/ after[n] # before[n]}

IdMatch(rows, store_id, product_data) ==
    IF product_data.id # "" THEN FindByShopifyId(rows, store_id, product_data.id) ELSE 0

TitleMatch(rows, store_id, product_data) ==
    FindByTitle(rows, store_id, product_data.title)

UniqueKeys(rows) ==
    \A m, n \in 1..Len(rows) :
        m # n =>
            /\ rows[m].shopify_id # None => rows[m].shopify_id # rows[n].shopify_id
            /\ <<rows[m].store_id, rows[m].title>> # <<rows[n].store_id, rows[n].title>>

\* The latest add_or_update_product returned, and the product of its store with
\* the record's shopify_id, if there is one, is the product it changed and returned.
UpdatesIdMatch ==
    LET match == IdMatch(dbop.before, dbop.store_id, dbop.product_data)
    IN  (dbop.raised = None /\ match # 0) =>
            /\ Touched(dbop.before, products_table) \subseteq {match}
            /\ dbop.returned = match

\* Failing that, the product of its store with the record's title is the one.
UpdatesTitleMatch ==
    LET match == TitleMatch(dbop.before, dbop.store_id, dbop.product_data)
    IN  (/\ dbop.raised = None
         /\ IdMatch(dbop.before, dbop.store_id, dbop.product_data) = 0
         /\ match # 0) =>
            /\ Touched(dbop.before, products_table) \subseteq {match}
            /\ dbop.returned = match

\* A row is added only when the store has neither.
InsertsOnlyWithoutMatch ==
    Len(products_table) > Len(dbop.before) =>
        /\ IdMatch(dbop.before, dbop.store_id, dbop.product_data) = 0
        /\ TitleMatch(dbop.before, dbop.store_id, dbop.product_data) = 0

\* The same record upserted again into the same store leaves the store's count as it was.
RepeatKeepsCount ==
    dbop.repeats =>
        CountOfStore(products_table, dbop.store_id) = CountOfStore(dbop.before, dbop.store_id)

\* C16: add_or_update_product(S, r) updates the product of S with r's
\* shopify_id, else the product of S with r's title, and inserts only when S
\* has neither; upserting r into S again leaves the count of S unchanged; no
\* two products share a shopify_id or a (store_id, title).
C16_UpsertMatching ==
    /\ UniqueKeys(products_table)
    /\ dbop.op = "add_or_update_product" =>
          /\ UpdatesIdMatch
          /\ UpdatesTitleMatch
          /\ InsertsOnlyWithoutMatch
          /\ RepeatKeepsCount

\* What holds of it: everything but the update of the title match.
C16_WithoutTitleMatch ==
    /\ UniqueKeys(products_table)
    /\ dbop.op = "add_or_update_product" =>
          /\ UpdatesIdMatch
          /\ InsertsOnlyWithoutMatch
          /\ RepeatKeepsCount

\* The latest persistence call met a duplicate unique key at flush.
HitConflict ==
    /\ dbop.op # "none"
    /\ Reportable(dbop.before, dbop.store_id, dbop.product_data) # {"none"}

\* The row holding the record's shopify_id before the call, in whichever store.
ConflictingRow ==
    FindByShopifyIdAnyStore(dbop.before, ShopifyIdOf(dbop.product_data))

\* C18: an upsert that hits a duplicate unique key makes at most 3 attempts;
\* it either returns the conflicting existing record, updated from the
\* scraped one, or drops the record and leaves the table as it was; no
\* exception reaches the caller.
C18_ConflictHandled ==
    HitConflict =>
        /\ dbop.raised = None
        /\ dbop.attempts <= upsert_max_retries
        /\ \/ dbop.returned = 0 /\ products_table = dbop.before
           \/ /\ dbop.returned # 0
              /\ dbop.returned = ConflictingRow
              /\ products_table[dbop.returned].price = dbop.product_data.price

\* safe_get_or_create_product does so.
C18_SafeWrapper ==
    dbop.op = "safe_get_or_create_product" => C18_ConflictHandled

\* A conflict on (store_id, title) alone is never resolved: the record is dropped
\* after upsert_max_retries identical attempts, or the exception is raised.
C18_TitleConflictDropped ==
    (HitConflict /\ Reportable(dbop.before, dbop.store_id, dbop.product_data)
                       = {"products.store_id, products.title"}) =>
        /\ products_table = dbop.before
        /\ dbop.op = "safe_get_or_create_product" =>
              dbop.returned = 0 /\ dbop.attempts = upsert_max_retries

\* The rows of other stores than the call's that the latest call changed or added.
TouchedElsewhere ==
    {n \in Touched(dbop.before, products_table) : products_table[n].store_id # dbop.store_id}

\* C29: a call of add_or_update_product for store S creates or changes no
\* row of another store, the recovery from a shopify_id conflict included.
C29_StoreIsolation ==
    dbop.op # "none" => TouchedElsewhere = {}

\* What holds: a row of another store is changed only by the recovery from a
\* shopify_id conflict, and it is the row that holds the record's shopify_id;
\* no row is ever created in another store.
C29_OnlyTheConflictingRow ==
    dbop.op # "none" =>
        /\ TouchedElsewhere \subseteq {ConflictingRow} \ {0}
        /\ TouchedElsewhere # {} =>
              "products.shopify_id" \in Reportable(dbop.before, dbop.store_id, dbop.product_data)
        /\ \A n \in TouchedElsewhere : n <= Len(dbop.before)

(***************************************************************************)
(* Persisted scrape passes: the loops that hand each scraped record to     *)
(* add_or_update_product, in ShopifyAgent._run_surveillance_scrape,        *)
(* agent_factory.scrape_store and the view's scrape_store.  One record is  *)
(* saved per step; the records are whatever the scrape returned.           *)
(***************************************************************************)
PassCallers == {"_run_surveillance_scrape", "agent_factory.scrape_store", "view.scrape_store"}

\* scrape_products(limit=None), had the comparison with None gone through.
scrape_products_unlimited_returns == [raised |-> None]

\* ShopifyAgent.scrape_products(limit=None), as _run_surveillance_scrape calls
\* it: `len(all_products) < limit` raises TypeError before any page is fetched.
scrape_products_unlimited == [raised |-> "TypeError"]

\* The pass up to its save loop.  available is the number of products the
\* store lists, size the number scrape_products returned; log_row tells whether
\* the pass's ScrapingLog row was created (in _run_surveillance_scrape the
\* session, the store or the row's commit may fail first).
StartPass ==
    /\ pass.pc = "idle"
    /\ \E caller \in PassCallers, store_id \in StoreIds, size \in 1..MaxPass, log_row \in BOOLEAN :
          IF caller = "_run_surveillance_scrape"
          THEN IF ~log_row \/ scrape_products_unlimited.raised # None
               THEN pass' = [pc |-> "done", caller |-> caller, store_id |-> store_id,
                             available |-> size, size |-> 0,
                             attempted |-> 0, saved |-> 0, failed |-> 0, log_row |-> log_row,
                             status |-> "failure", product_count |-> 0]
               ELSE pass' = [pc |-> "saving", caller |-> caller, store_id |-> store_id,
                             available |-> size, size |-> size,
                             attempted |-> 0, saved |-> 0, failed |-> 0, log_row |-> TRUE,
                             status |-> "in_progress", product_count |-> 0]
          ELSE /\ log_row
               /\ pass' = [pc |-> "saving", caller |-> caller, store_id |-> store_id,
                            available |-> size, size |-> size,
                            attempted |-> 0, saved |-> 0, failed |-> 0, log_row |-> TRUE,
                            status |-> "in_progress", product_count |-> 0]
    /\ UNCHANGED <<storeVars, notPassVars>>

\* The view wraps each add_or_update_product in try ... except: continue;
\* the other two callers let its exception end the loop.
CatchesPerRecord(caller) == caller = "view.scrape_store"

\* One turn of `for product_data in products: add_or_update_product(...)`.
SaveRecord ==
    /\ pass.pc = "saving"
    /\ pass.attempted < pass.size
    /\ \E product_data \in Records :
        \E reported \in Reportable(products_table, pass.store_id, product_data) :
          LET out == add_or_update_product(products_table, pass.store_id, product_data, reported)
          IN  /\ products_table' = out.rows
              /\ dbop' = [op |-> "add_or_update_product",
                          store_id |-> pass.store_id, product_data |-> product_data,
                          before |-> products_table, raised |-> out.raised,
                          returned |-> out.returned, attempts |-> 1, repeats |-> FALSE]
              /\ IF out.raised = None
                 THEN pass' = [pass EXCEPT !.attempted = @ + 1, !.saved = @ + 1]
                 ELSE IF CatchesPerRecord(pass.caller)
                 THEN pass' = [pass EXCEPT !.attempted = @ + 1, !.failed = @ + 1]
                 ELSE pass' = [pass EXCEPT !.attempted = @ + 1, !.failed = @ + 1,
                                           !.pc = "done",
                                           !.status = IF pass.caller = "agent_factory.scrape_store"
                                                      THEN "failed" ELSE "failure",
                                           !.product_count = IF pass.caller = "agent_factory.scrape_store"
                                                             THEN 0 ELSE pass.size]
    /\ UNCHANGED notPassVars

\* The status a pass that saved every record is logged with:
\* _run_surveillance_scrape never assigns status after "in_progress" on that path.
LoggedAfterLoop(caller) == IF caller = "_run_surveillance_scrape" THEN "in_progress" ELSE "success"

\* After the loop: the pass is logged with the number scraped.
FinishPass ==
    /\ pass.pc = "saving"
    /\ pass.attempted = pass.size
    /\ pass' = [pass EXCEPT !.pc = "done", !.status = LoggedAfterLoop(pass.caller),
                             !.product_count = pass.size]
    /\ UNCHANGED <<storeVars, notPassVars>>

NextPass == StartPass \/ SaveRecord \/ FinishPass

C17_ViewPass ==
    (pass.pc = "done" /\ pass.caller = "view.scrape_store") =>
        /\ pass.attempted = pass.size
        /\ pass.saved + pass.failed = pass.size
        /\ pass.status = "success"

\* C21: a surveillance pass that created its log row scrapes every product
\* the store lists and hands every one of them to add_or_update_product.
C21_ScrapesEverything ==
    (pass.pc = "done" /\ pass.caller = "_run_surveillance_scrape" /\ pass.log_row) =>
        /\ pass.size = pass.available
        /\ pass.saved + pass.failed > 0

\* What the surveillance pass does: no product is scraped and none is saved.
C21_ScrapesNothing ==
    (pass.pc = "done" /\ pass.caller = "_run_surveillance_scrape") =>
        /\ pass.size = 0
        /\ pass.attempted = 0
        /\ pass.status = "failure"

Absent == [present |-> FALSE]

\* <script type="application/json" data-product-json>: price is in cents.
EmbeddedJsons ==
    {Absent} \cup
    {[present |-> TRUE, title |-> t, description |-> d, price |-> p, available |-> a] :
        t \in {"", "embedded title"}, d \in {"", "embedded description"},
        p \in {0, 1000}, a \in {"False", "True"}}

\* <script type="application/ld+json"> of @type Product.
JsonLds ==
    {Absent} \cup
    {[present |-> TRUE, name |-> t, description |-> d, price |-> p, availability |-> a] :
        t \in {"", "ld name"}, d \in {"", "ld description"},
        p \in {0, 20}, a \in {"", "InStock"}}

\* <title>, <meta name="description">, and the first price element a selector finds.
Fallbacks ==
    [title_tag : {None, "page title"}, meta_desc : {None, "meta description"},
     price_el : {[present |-> FALSE], [present |-> TRUE, number |-> 30]}]

ProductPages == [embedded : EmbeddedJsons, json_ld : JsonLds, fallback : Fallbacks]

\* `not details.get(key)`, `details[key] == 0`, `details[key] == ''`: False is 0 in Python.
Blank(key, value) == IF key = "price" THEN value = 0 ELSE value \in {"", "False"}

\* details after the embedded product JSON was read.
FromEmbedded(embedded) ==
    IF embedded.present
    THEN [title |-> embedded.title, description |-> embedded.description,
          price |-> embedded.price \div 100, available |-> embedded.available]
    ELSE EmptyDict

\* Set key to value in details.
Put(details, key, value) ==
    [k \in DOMAIN details \cup {key} |-> IF k = key THEN value ELSE details[k]]

\* The title tag, the meta description and the price element fill what is blank so far.
FromFallback(details, fallback) ==
    LET titled == IF Blank("title", Get(details, "title", "")) /\ fallback.title_tag # None
                  THEN Put(details, "title", fallback.title_tag) ELSE details
        described == IF Blank("description", Get(titled, "description", ""))
                        /\ fallback.meta_desc # None
                     THEN Put(titled, "description", fallback.meta_desc) ELSE titled
    IN  IF Get(described, "price", 0) = 0 /\ fallback.price_el.present
        THEN Put(described, "price", fallback.price_el.number)
        ELSE described

\* value in ['', 0, None, []]
Nothing(key, value) == IF key = "price" THEN value = 0 ELSE value = ""

\* One key of ld_details: taken when details lacks the key or holds a blank, and the value is not blank.
MergeKey(details, key, value) ==
    IF (key \notin DOMAIN details \/ Blank(key, details[key])) /\ ~Nothing(key, value)
    THEN Put(details, key, value)
    ELSE details

\* The JSON-LD block, read after the fallback.
FromJsonLd(details, json_ld) ==
    IF json_ld.present
    THEN MergeKey(MergeKey(MergeKey(MergeKey(details,
            "title", json_ld.name),
            "description", json_ld.description),
            "price", json_ld.price),
            "available", json_ld.availability)
    ELSE details

\* details.setdefault(key, default)
SetDefault(details, key, default) ==
    IF key \in DOMAIN details THEN details ELSE Put(details, key, default)

extract_product_details(page) ==
    SetDefault(SetDefault(SetDefault(
        FromJsonLd(FromFallback(FromEmbedded(page.embedded), page.fallback), page.json_ld),
        "title", ""), "description", ""), "price", 0)

IdleDetail == detail = [pc |-> "idle"]

InitDetail == detail \in {[pc |-> "page", page |-> page] : page \in ProductPages}

\* extract_product_details(product_url) on a page that was fetched.
ExtractProductDetails ==
    /\ detail.pc = "page"
    /\ detail' = [pc |-> "done", page |-> detail.page,
                  details |-> extract_product_details(detail.page)]
    /\ UNCHANGED notDetailVars

NextDetail == ExtractProductDetails

(***************************************************************************)
(* Product details: the claims.                                            *)
(***************************************************************************)
DetailFields == {"title", "description", "price", "available"}

\* What each source gives for a field, in priority order; a blank stands for nothing given.
SourceValues(page, key) ==
    LET blank == IF key = "price" THEN 0 ELSE ""
        embedded == IF page.embedded.present
                    THEN FromEmbedded(page.embedded)[key] ELSE blank
        json_ld == IF ~page.json_ld.present THEN blank
                   ELSE CASE key = "title" -> page.json_ld.name
                          [] key = "description" -> page.json_ld.description
                          [] key = "price" -> page.json_ld.price
                          [] OTHER -> page.json_ld.availability
        fallback == CASE key = "title" ->
                           IF page.fallback.title_tag # None THEN page.fallback.title_tag ELSE blank
                      [] key = "description" ->
                           IF page.fallback.meta_desc # None THEN page.fallback.meta_desc ELSE blank
                      [] key = "price" ->
                           IF page.fallback.price_el.present THEN page.fallback.price_el.number ELSE blank
                      [] OTHER -> blank
    IN  <<embedded, json_ld, fallback>>

\* The value of the first source, in the given order, that is not blank.
RECURSIVE FirstGiven(_, _)
FirstGiven(key, values) ==
    IF values = <<>> THEN (IF key = "price" THEN 0 ELSE "")
    ELSE IF ~Blank(key, Head(values)) THEN Head(values)
    ELSE FirstGiven(key, Tail(values))

\* A field nobody gives is blank or missing in the details.
Matches(key, value, expected) ==
    IF Blank(key, expected) THEN Blank(key, value) ELSE value = expected

\* C19: each field of the details has the value of the first of embedded
\* product JSON, JSON-LD, CSS/meta fallback that gives one; so a JSON-LD
\* price is returned when the embedded JSON has none and a price element
\* exists too.
C19_MergePriority ==
    detail.pc = "done" =>
        \A key \in DetailFields :
            Matches(key, Get(detail.details, key, IF key = "price" THEN 0 ELSE ""),
                    FirstGiven(key, SourceValues(detail.page, key)))

\* The order the code merges in: embedded product JSON, then the fallback, then JSON-LD.
C19_FallbackBeforeJsonLd ==
    detail.pc = "done" =>
        \A key \in DetailFields :
            LET values == SourceValues(detail.page, key)
            IN  Matches(key, Get(detail.details, key, IF key = "price" THEN 0 ELSE ""),
                        FirstGiven(key, <<values[1], values[3], values[2]>>))

(***************************************************************************)
(* Surveillance: ShopifyAgent.surveillance over the scheduler of the       *)
(* schedule module.  A job is kept with the agent whose                    *)
(* _run_surveillance_scrape it calls and its interval in hours.            *)
(***************************************************************************)
Agents == {"agent1", "agent2"}

Hours == {-1, 0, 1, 2, 24}

\* self._surveillance_job = None: the agent holds no job.
NoJob == [agent |-> None, interval |-> 0]

\* if self._surveillance_job: with the test left out.
AlreadyActive_never(surveillance_job_) == FALSE

\* if self._surveillance_job:
AlreadyActive(surveillance_job_) == surveillance_job_ # NoJob

\* max(1, hours)
Interval(hours) == MaxInt(1, hours)

\* schedule.every(interval).hours.do(self._run_surveillance_scrape)
NewJob(agent, interval) == [agent |-> agent, interval |-> interval]

\* schedule.cancel_job(job): the job is taken off the scheduler's list.
RECURSIVE cancel_job(_, _)
cancel_job(scheduled, cancelled) ==
    IF scheduled = <<>> THEN <<>>
    ELSE IF Head(scheduled) = cancelled THEN Tail(scheduled)
    ELSE <<Head(scheduled)>> \o cancel_job(Tail(scheduled), cancelled)

InitSurveillance ==
    /\ jobs = <<>>
    /\ surveillance_job = [a \in Agents |-> NoJob]
    /\ toggled = [agent |-> None]

\* agent.surveillance(on_or_off, hours)
Surveillance ==
    /\ \E agent \in Agents, on_or_off \in BOOLEAN, hours \in Hours :
          /\ toggled' = [agent |-> agent, on_or_off |-> on_or_off, hours |-> hours,
                         jobs |-> jobs, job |-> surveillance_job[agent]]
          /\ IF on_or_off
             THEN IF AlreadyActive(surveillance_job[agent])
                  THEN UNCHANGED <<jobs, surveillance_job>>
                  ELSE /\ jobs' = Append(jobs, NewJob(agent, Interval(hours)))
                       /\ surveillance_job' =
                              [surveillance_job EXCEPT ![agent] = NewJob(agent, Interval(hours))]
             ELSE IF AlreadyActive(surveillance_job[agent])
                  THEN /\ jobs' = cancel_job(jobs, surveillance_job[agent])
                       /\ surveillance_job' = [surveillance_job EXCEPT ![agent] = NoJob]
                  ELSE UNCHANGED <<jobs, surveillance_job>>
    /\ UNCHANGED notSurvVars

NextSurveillance == Surveillance

(***************************************************************************)
(* Surveillance: the claims.                                               *)
(***************************************************************************)
JobsOf(agent) == {n \in 1..Len(jobs) : jobs[n].agent = agent}

\* C20: each agent has at most one scheduled job, and _surveillance_job is
\* that job, or None when it has none; surveillance(True, hours) on an
\* active agent schedules nothing and keeps the interval, on an inactive one
\* it schedules a job every max(1, hours) hours; surveillance(False) cancels
\* the agent's job.
C20_SurveillanceToggle ==
    /\ \A agent \in Agents :
          /\ Cardinality(JobsOf(agent)) <= 1
          /\ surveillance_job[agent] # NoJob <=> JobsOf(agent) # {}
          /\ \A n \in JobsOf(agent) : jobs[n] = surveillance_job[agent]
    /\ toggled.agent # None =>
          LET agent == toggled.agent
          IN  IF toggled.on_or_off
              THEN IF toggled.job # NoJob
                   THEN jobs = toggled.jobs /\ surveillance_job[agent] = toggled.job
                   ELSE /\ Len(jobs) = Len(toggled.jobs) + 1
                        /\ surveillance_job[agent].interval =
                              (IF toggled.hours < 1 THEN 1 ELSE toggled.hours)
              ELSE /\ JobsOf(agent) = {}
                   /\ surveillance_job[agent] = NoJob
                   /\ Len(jobs) = Len(toggled.jobs) - (IF toggled.job # NoJob THEN 1 ELSE 0)

\* surveillance(True, 24) on an agent already watched every hour, the other
\* agent being watched too: nothing is scheduled and the interval stays 1.
C20_Witness ==
    /\ toggled.agent = "agent1"
    /\ toggled.on_or_off
    /\ toggled.hours = 24
    /\ toggled.job # NoJob
    /\ surveillance_job["agent1"].interval = 1
    /\ surveillance_job["agent2"] # NoJob
    /\ Len(jobs) = 2

(***************************************************************************)
(* Multi-site scraping: EnhancedAgentFactory.scrape_multiple_sites over    *)
(* _scrape_sites_sequential and _scrape_sites_parallel.  In parallel mode  *)
(* each future of the ThreadPoolExecutor goes from queued to running to    *)
(* finished, and the calling thread gathers the finished futures in the    *)
(* order as_completed yields them.                                         *)
(***************************************************************************)
\* config.get('site_url'): "" stands for a config without site_url or with an empty one.
SiteUrls == {"", "a", "b"}

\* A store that answers to WooCommerceAgent.detect_platform only.
WooSite == [shopify |-> FALSE, woocommerce |-> TRUE]

\* How many products the store at site_url lists.
Listed(site_url) == IF site_url = "a" THEN 2 ELSE 1

\* A site config: its site_url, its platform_hint, and whether all its keys are
\* strings (scrape_single_site(**config) raises TypeError otherwise).
SiteConfigs == [site_url : SiteUrls, platform_hint : {None, "shopify"}, keywords : BOOLEAN]

\* cls.scrape_single_site(**config_with_limit): the dict it returns, or the
\* TypeError of the call itself.
scrape_site(config) ==
    IF ~config.keywords
    THEN [raised |-> "TypeError"]
    ELSE [raised |-> None,
          result |-> scrape_single_site(WooSite, config.platform_hint,
                                        [raised |-> None, count |-> Listed(config.site_url)],
                                        None).result]

\* _scrape_sites_sequential from the i-th config on: a config without site_url
\* is skipped, a later result for the same site_url replaces the earlier one,
\* and an exception of the call leaves the loop.
RECURSIVE scrape_sites_sequential(_, _, _)
scrape_sites_sequential(site_configs, i, results) ==
    IF i > Len(site_configs) THEN [raised |-> None, sites |-> results]
    ELSE IF site_configs[i].site_url = ""
    THEN scrape_sites_sequential(site_configs, i + 1, results)
    ELSE LET out == scrape_site(site_configs[i])
         IN  IF out.raised # None THEN [raised |-> out.raised]
             ELSE scrape_sites_sequential(site_configs, i + 1,
                                          Put(results, site_configs[i].site_url, out.result))

\* The entry _scrape_sites_parallel stores for a future whose result() raises.
FailureEntry(error) == [success |-> FALSE, error |-> error, product_count |-> 0]

\* results['total_products'] += site_result['product_count'] over the successful sites.
RECURSIVE TotalProducts(_, _)
TotalProducts(sites, urls) ==
    IF urls = {} THEN 0
    ELSE LET u == CHOOSE x \in urls : TRUE
         IN  (IF sites[u].success THEN sites[u].product_count ELSE 0)
                 + TotalProducts(sites, urls \ {u})

\* The statistics of scrape_multiple_sites over the sites map; the success rate
\* it logs divides by total_sites.
Statistics(site_configs, sites) ==
    IF Len(site_configs) = 0
    THEN [raised |-> "ZeroDivisionError"]
    ELSE [raised |-> None,
          total_sites |-> Len(site_configs),
          successful_sites |-> Cardinality({u \in DOMAIN sites : sites[u].success}),
          failed_sites |-> Cardinality({u \in DOMAIN sites : ~sites[u].success}),
          total_products |-> TotalProducts(sites, DOMAIN sites),
          sites |-> sites]

IdleMulti == multi = [pc |-> "idle"]

\* scrape_multiple_sites(site_configs, parallel=..., max_workers=...): in
\* sequential mode the whole call; in parallel mode up to the submission of
\* one future per config that has a site_url.
ScrapeMultipleSites ==
    /\ multi.pc = "idle"
    /\ \E n \in 0..MaxConfigs, parallel \in BOOLEAN, max_workers \in 1..MaxWorkers :
        \E site_configs \in [1..n -> SiteConfigs] :
          IF parallel /\ Len(site_configs) > 1
          THEN multi' = [pc |-> "parallel", site_configs |-> site_configs,
                         parallel |-> TRUE, max_workers |-> max_workers,
                         future |-> [k \in 1..n |-> IF site_configs[k].site_url = ""
                                                    THEN "none" ELSE "queued"],
                         sites |-> EmptyDict]
          ELSE LET out == scrape_sites_sequential(site_configs, 1, EmptyDict)
               IN  multi' = [pc |-> "done", site_configs |-> site_configs,
                             parallel |-> FALSE, max_workers |-> max_workers,
                             result |-> IF out.raised # None THEN out
                                        ELSE Statistics(site_configs, out.sites)]
    /\ UNCHANGED notMultiVars

Running == {k \in DOMAIN multi.future : multi.future[k] = "running"}

\* A free worker of the pool takes the oldest queued call.
WorkerStarts ==
    /\ multi.pc = "parallel"
    /\ Cardinality(Running) < multi.max_workers
    /\ \E k \in DOMAIN multi.future :
          /\ multi.future[k] = "queued"
          /\ \A j \in 1..(k - 1) : multi.future[j] # "queued"
          /\ multi' = [multi EXCEPT !.future[k] = "running"]
    /\ UNCHANGED notMultiVars

\* A worker's scrape_site_wrapper returns or raises: its future is finished.
WorkerFinishes ==
    /\ multi.pc = "parallel"
    /\ \E k \in Running : multi' = [multi EXCEPT !.future[k] = "finished"]
    /\ UNCHANGED notMultiVars

\* One turn of `for future in as_completed(...)`: the calling thread stores the
\* future's result, or a failure entry when future.result() raises.
Gather ==
    /\ multi.pc = "parallel"
    /\ \E k \in DOMAIN multi.future :
          /\ multi.future[k] = "finished"
          /\ LET config == multi.site_configs[k]
                 out == scrape_site(config)
             IN  multi' = [multi EXCEPT
                             !.future[k] = "gathered",
                             !.sites = Put(@, config.site_url,
                                           IF out.raised # None THEN FailureEntry(out.raised)
                                           ELSE out.result)]
    /\ UNCHANGED notMultiVars

\* Every future was gathered: the pool is shut down, the statistics are
\* computed and scrape_multiple_sites returns.
ReturnParallel ==
    /\ multi.pc = "parallel"
    /\ \A k \in DOMAIN multi.future : multi.future[k] \in {"none", "gathered"}
    /\ multi' = [pc |-> "done", site_configs |-> multi.site_configs,
                 parallel |-> TRUE, max_workers |-> multi.max_workers,
                 result |-> Statistics(multi.site_configs, multi.sites)]
    /\ UNCHANGED notMultiVars

NextMulti == ScrapeMultipleSites \/ WorkerStarts \/ WorkerFinishes \/ Gather \/ ReturnParallel

(***************************************************************************)
(* Multi-site scraping: the claims.                                        *)
(***************************************************************************)
SitesOf(site_configs) ==
    {site_configs[k].site_url : k \in DOMAIN site_configs} \ {""}

SequentialOutcome == scrape_sites_sequential(multi.site_configs, 1, EmptyDict)

\* Every site_url is given by one config only.
EachSiteOnce ==
    \A j, k \in DOMAIN multi.site_configs :
        (j # k /\ multi.site_configs[j].site_url # "") =>
            multi.site_configs[j].site_url # multi.site_configs[k].site_url

\* C22: the map _scrape_sites_parallel returns has one entry per distinct
\* site_url and, where the sequential loop returns a map for the same configs
\* and the same outcome of each call, equals that map, whatever the order in
\* which the workers run and finish.
C22_ParallelEqualsSequential ==
    (multi.pc = "done" /\ multi.parallel) =>
        /\ DOMAIN multi.result.sites = SitesOf(multi.site_configs)
        /\ SequentialOutcome.raised = None => multi.result.sites = SequentialOutcome.sites

\* What holds: the map has one entry per distinct site_url; with every
\* site_url given once it is the sequential map, and a call that raised has
\* left a failure entry for its site.
C22_DistinctSites ==
    (multi.pc = "done" /\ multi.parallel /\ EachSiteOnce) =>
        /\ DOMAIN multi.result.sites = SitesOf(multi.site_configs)
        /\ SequentialOutcome.raised = None => multi.result.sites = SequentialOutcome.sites
        /\ \A k \in DOMAIN multi.site_configs :
              LET config == multi.site_configs[k]
              IN  (config.site_url # "" /\ ~config.keywords) =>
                      multi.result.sites[config.site_url] = FailureEntry("TypeError")

\* C30: scrape_multiple_sites returns a result whose successful_sites and
\* failed_sites add up to total_sites and whose total_products is the sum of
\* product_count over the successful sites, for every list of configs.
C30_Accounting ==
    multi.pc = "done" =>
        /\ multi.result.raised = None
        /\ multi.result.successful_sites + multi.result.failed_sites = multi.result.total_sites
        /\ multi.result.total_products =
              TotalProducts(multi.result.sites, DOMAIN multi.result.sites)

\* What holds: the two counts add up to the number of distinct site_urls, and
\* total_products is the sum over the successful sites.
C30_CountsDistinctSites ==
    (multi.pc = "done" /\ multi.result.raised = None) =>
        /\ multi.result.successful_sites + multi.result.failed_sites =
              Cardinality(SitesOf(multi.site_configs))
        /\ multi.result.total_products =
              TotalProducts(multi.result.sites, DOMAIN multi.result.sites)

(***************************************************************************)
(* Agent selection: EnhancedAgentFactory.create_agent on its own.          *)
(***************************************************************************)
\* The hints a caller may pass: a registered platform in either case, an
\* unregistered one, the empty string, or none.
GivenHints == PlatformHints \cup {"Shopify", ""}

\* The site_url a caller may pass for one store.
GivenUrls == {"shop.example", "https://shop.example", "https://shop.example/"}

\* _clean_url: the scheme is added when missing and the final slash removed.
clean_url(site_url) ==
    LET with_scheme == IF site_url = "shop.example" THEN "https://shop.example" ELSE site_url
    IN  IF with_scheme = "https://shop.example/" THEN "https://shop.example" ELSE with_scheme

IdleMade == made = [call |-> "none"]

\* EnhancedAgentFactory.create_agent(site_url, platform_hint=..., with_variants=...)
CreateAgent ==
    /\ \E site \in Sites, site_url \in GivenUrls, platform_hint \in GivenHints,
          with_variants \in BOOLEAN :
          made' = [call |-> "create_agent", site |-> site, site_url |-> site_url,
                   cleaned_url |-> clean_url(site_url),
                   platform_hint |-> platform_hint, with_variants |-> with_variants,
                   out |-> create_agent(site, platform_hint)]
    /\ UNCHANGED notMadeVars

NextMade == CreateAgent

(***************************************************************************)
(* Agent selection: the claims.                                            *)
(***************************************************************************)
Registered(platform) == \E n \in 1..Len(AVAILABLE_AGENTS) : AVAILABLE_AGENTS[n] = platform

\* The first platform from the n-th in registry order whose detect_platform
\* succeeds on the site, or None.
RECURSIVE FirstDetected(_, _)
FirstDetected(site, n) ==
    IF n > Len(AVAILABLE_AGENTS) THEN None
    ELSE IF site[AVAILABLE_AGENTS[n]] THEN AVAILABLE_AGENTS[n]
    ELSE FirstDetected(site, n + 1)

\* C23: create_agent never raises; it returns the agent of the hinted
\* platform when the hint names a registered platform that the site answers
\* to, otherwise the agent of the first registered platform the site answers
\* to, and None when there is none.
C23_FactorySelection ==
    made.call = "create_agent" =>
        /\ made.out.raised = None
        /\ made.out.agent =
              (IF Registered(Lower(made.platform_hint)) /\ made.site[Lower(made.platform_hint)]
               THEN Lower(made.platform_hint)
               ELSE FirstDetected(made.site, 1))

\* What create_agent does: a Shopify hint makes it raise TypeError; otherwise
\* it returns a WooCommerce agent when the site answers to WooCommerce and
\* None when it does not, whether or not the site is a Shopify store.
C23_NeverShopify ==
    made.call = "create_agent" =>
        IF Lower(made.platform_hint) = "shopify"
        THEN made.out.raised = "TypeError"
        ELSE /\ made.out.raised = None
             /\ made.out.agent = (IF made.site.woocommerce THEN "woocommerce" ELSE None)

(***************************************************************************)
(* Repeated upsert: add_or_update_product called twice with one            *)
(* product_data dict, as safe_get_or_create_product does when it retries.  *)
(* The field loop of lines 136-203 on a product's title, price and date    *)
(* columns.  A date value is None, a string (that dateutil parses or       *)
(* rejects) or a datetime object.                                          *)
(***************************************************************************)
NoDate == [kind |-> "None"]

DateString(parses) == [kind |-> "str", parses |-> parses]

DateTime == [kind |-> "datetime"]

\* What a scraped record may carry in a date field.
GivenDates == {NoDate, DateString(TRUE), DateString(FALSE)}

date_fields == {"created_at", "updated_at", "published_at"}

Columns == {"title", "price"} \cup date_fields

\* parse_datetime: None for None and for '', the parsed datetime for a string
\* dateutil parses, None when dateutil raises ValueError (a string it rejects)
\* or TypeError (a value that is no string, such as a datetime object).
parse_datetime(date_str) ==
    IF date_str.kind = "str" /\ date_str.parses THEN DateTime ELSE NoDate

\* for field in date_fields: product_data[field] = parse_datetime(product_data[field]).
\* The caller's dict is changed in place.
ConvertDates(product_data) ==
    [k \in DOMAIN product_data |->
        IF k \in date_fields THEN parse_datetime(product_data[k]) ELSE product_data[k]]

\* Product(store_id=store_id): no column set yet.
NewProduct ==
    [title |-> "", price |-> 0, created_at |-> NoDate, updated_at |-> NoDate,
     published_at |-> NoDate]

\* The keys of product_data whose value differs from the product's.
Differing(product, product_data) ==
    {k \in DOMAIN product_data \cap Columns : product[k] # product_data[k]}

\* The field loop: setattr for every differing key.
SetFields(product, product_data) ==
    [k \in Columns |-> IF k \in Differing(product, product_data)
                       THEN product_data[k] ELSE product[k]]

\* The ProductChangeLog rows of the call: one per differing key, for an
\* existing product and a given scraping_log_id.
ChangeLog(product, product_data, is_new_product, scraping_log_id) ==
    IF is_new_product \/ scraping_log_id = None THEN {}
    ELSE Differing(product, product_data)

IdleAgain == again = [pc |-> "idle"]

\* A scraped record, not yet stored, and the caller's scraping_log_id.
InitAgain ==
    \E price \in Prices, scraping_log_id \in {None, "log 1"}, given \in SUBSET date_fields :
        \E dates \in [given -> GivenDates] :
            again = [pc |-> "scraped",
                     product_data |-> [title |-> "A", price |-> price] @@ dates,
                     scraping_log_id |-> scraping_log_id]

\* The first call: the product is new.
FirstCall ==
    /\ again.pc = "scraped"
    /\ LET converted == ConvertDates(again.product_data)
       IN  again' = [pc |-> "once", given |-> again.product_data,
                     product_data |-> converted,
                     scraping_log_id |-> again.scraping_log_id,
                     first |-> SetFields(NewProduct, converted),
                     change_log |-> ChangeLog(NewProduct, converted, TRUE, again.scraping_log_id)]
    /\ UNCHANGED notAgainVars

\* The second call with the same dict: the product of the first call is found
\* by its title.
SecondCall ==
    /\ again.pc = "once"
    /\ LET converted == ConvertDates(again.product_data)
       IN  again' = [pc |-> "twice", given |-> again.given,
                     product_data |-> converted,
                     scraping_log_id |-> again.scraping_log_id,
                     first |-> again.first,
                     second |-> SetFields(again.first, converted),
                     change_log |-> ChangeLog(again.first, converted, FALSE,
                                              again.scraping_log_id)]
    /\ UNCHANGED notAgainVars

NextAgain == FirstCall \/ SecondCall

(***************************************************************************)
(* Repeated upsert: the claims.                                            *)
(***************************************************************************)
\* C28: after add_or_update_product was called twice with the same dict, the
\* stored record is the one the first call stored, with the parsed
\* timestamps, and the second call recorded no change.
C28_Repeatable ==
    again.pc = "twice" =>
        /\ again.second = again.first
        /\ \A k \in date_fields \cap DOMAIN again.given :
              (again.given[k] = DateString(TRUE)) => again.second[k] = DateTime
        /\ again.change_log = {}

\* What holds: the second call clears exactly the date columns the first call
\* had parsed, leaves every other column as it was, and logs those columns
\* when it was given a scraping_log_id.
C28_ClearsParsedDates ==
    again.pc = "twice" =>
        LET parsed == {k \in date_fields \cap DOMAIN again.given :
                          again.given[k] = DateString(TRUE)}
        IN  /\ \A k \in Columns :
                  again.second[k] = (IF k \in parsed THEN NoDate ELSE again.first[k])
            /\ again.change_log = (IF again.scraping_log_id = None THEN {} ELSE parsed)

(***************************************************************************)
(* The specifications.                                                     *)
(***************************************************************************)
\* The components a specification does not run stay as constructed.
IdleLast == IdleMulti /\ IdleMade /\ IdleAgain

IdleMiddle ==
    /\ IdleNormalize /\ IdleParse /\ IdleJob /\ InitStore /\ IdlePass /\ IdleDetail
    /\ InitSurveillance

IdleLater == IdleMiddle /\ IdleLast

Init == InitRouter /\ IdleTopK /\ InitScrape /\ IdleLater

Next == NextRouter

Spec == Init /\ [][Next]_vars

InitOfFullHistory == InitFullHistory /\ IdleTopK /\ InitScrape /\ IdleLater

SpecFullHistory == InitOfFullHistory /\ [][NextRouter]_vars

InitOfTopK == InitTopK /\ InitRouter /\ InitScrape /\ IdleLater

SpecTopK == InitOfTopK /\ [][NextTopK]_vars

InitOfScrape == InitScrape /\ InitRouter /\ IdleTopK /\ IdleLater

SpecScrape == InitOfScrape /\ [][NextScrape]_vars

\* Each step of a scrape in progress is taken: the agent does not stop by itself.
FairSpecScrape == SpecScrape /\ WF_vars(NextScrape)

IdleFirst == InitRouter /\ IdleTopK /\ InitScrape

InitOfNormalize == InitNormalize /\ IdleFirst /\ IdleParse /\ IdleJob /\ InitStore /\ IdlePass /\ IdleDetail /\ InitSurveillance /\ IdleLast

SpecNormalize == InitOfNormalize /\ [][NextNormalize]_vars

InitOfParse == InitParse /\ IdleFirst /\ IdleNormalize /\ IdleJob /\ InitStore /\ IdlePass /\ IdleDetail /\ InitSurveillance /\ IdleLast

SpecParse == InitOfParse /\ [][NextParse]_vars

InitOfJob == IdleJob /\ IdleFirst /\ IdleNormalize /\ IdleParse /\ InitStore /\ IdlePass /\ IdleDetail /\ InitSurveillance /\ IdleLast

SpecJob == InitOfJob /\ [][NextJob]_vars

InitOfStore == InitStore /\ IdleFirst /\ IdleNormalize /\ IdleParse /\ IdleJob /\ IdlePass /\ IdleDetail /\ InitSurveillance /\ IdleLast

SpecStore == InitOfStore /\ [][NextStore]_vars

InitOfPass == IdlePass /\ InitStore /\ IdleFirst /\ IdleNormalize /\ IdleParse /\ IdleJob /\ IdleDetail /\ InitSurveillance /\ IdleLast

SpecPass == InitOfPass /\ [][NextPass]_vars

InitOfDetail ==
    /\ InitDetail /\ IdleFirst /\ IdleNormalize /\ IdleParse /\ IdleJob /\ InitStore /\ IdlePass
    /\ InitSurveillance /\ IdleLast

SpecDetail == InitOfDetail /\ [][NextDetail]_vars

InitOfSurveillance ==
    /\ InitSurveillance /\ IdleFirst /\ IdleNormalize /\ IdleParse /\ IdleJob /\ InitStore
    /\ IdlePass /\ IdleDetail /\ IdleLast

SpecSurveillance == InitOfSurveillance /\ [][NextSurveillance]_vars

InitOfMulti == IdleMulti /\ IdleFirst /\ IdleMiddle /\ IdleMade /\ IdleAgain

SpecMulti == InitOfMulti /\ [][NextMulti]_vars

InitOfMade == IdleMade /\ IdleFirst /\ IdleMiddle /\ IdleMulti /\ IdleAgain

SpecMade == InitOfMade /\ [][NextMade]_vars

InitOfAgain == InitAgain /\ IdleFirst /\ IdleMiddle /\ IdleMulti /\ IdleMade

SpecAgain == InitOfAgain /\ [][NextAgain]_vars

====
